---- MODULE Spec2Model ----
(***************************************************************************)
(* MuseWave backend (src/backend/server.py): the suggestion generation and *)
(* uniqueness-enforcement engine.                                          *)
(*                                                                         *)
(* A text is a sequence of tokens.  A token is one whitespace-delimited    *)
(* word of the Python string; consecutive tokens are separated by a single *)
(* blank.  The token WS stands for additional whitespace at its position   *)
(* (leading, trailing, or a run of blanks between two words).  The         *)
(* vocabulary is chosen so that every substring the code looks for occurs  *)
(* only as a whole token (or as a pair of adjacent tokens).                *)
(***************************************************************************)
EXTENDS Integers, Sequences, FiniteSets, TLC

----------------------------------------------------------------------------
(* Vocabulary                                                              *)

WS == "  "
Dash == "-"
VariationCue == "Variation cue:"

\* str.lower() of a token
Lower(tok) ==
    CASE tok = "Neon" -> "neon"
      [] tok = "Sky"  -> "sky"
      [] tok = "The"  -> "the"
      [] tok = "Daft" -> "daft"
      [] tok = "Punk" -> "punk"
      [] tok = "NEON" -> "neon"
      [] tok = "City" -> "city"
      [] tok = "H" -> "h"
      [] tok = "A" -> "a"
      [] tok = "Pop" -> "pop"
      [] tok = "Dark" -> "dark"
      [] tok = "Cosmic" -> "cosmic"
      [] tok = "'Dark" -> "'dark"
      [] tok = "'Cosmic" -> "'cosmic"
      [] tok = "3FA29B" -> "3fa29b"
      [] tok = "3FA29B'." -> "3fa29b'."
      [] tok = "Tempo" -> "tempo"
      [] tok = "Energy" -> "energy"
      [] tok = "Emotional" -> "emotional"
      [] tok = "Instrumentation" -> "instrumentation"
      [] tok = "House" -> "house"
      [] tok = "BPM." -> "bpm."
      [] tok = "BPM," -> "bpm,"
      [] tok = "Visual" -> "visual"
      [] tok = "Techno," -> "techno,"
      [] tok = "Pop," -> "pop,"
      [] tok = "Punk," -> "punk,"
      [] tok = "Weeknd" -> "weeknd"
      [] tok = "M" -> "m"
      [] tok = "S" -> "s"
      [] tok = VariationCue -> "variation cue:"
      [] OTHER -> tok

\* words made of 4..8 hexadecimal digits ([0-9a-f]{4,8}, re.IGNORECASE)
HexWords == {"dead", "beef", "cafe", "3fa29b"}
\* bracketed machine tags (\[[0-9a-f]{3,8}\])
BracketTags == {"[abc]"}

\* number of characters of a token
TokLen(tok) ==
    CASE tok = WS -> 1
      [] tok = Dash -> 1
      [] tok = VariationCue -> 14
      [] tok \in {"metaphorically"} -> 14
      [] tok \in {"kaleidoscopic"} -> 13
      [] tok \in {"the", "The", "sky", "Sky", "and"} -> 3
      [] tok \in {"3fa29b", "3FA29B", "cosmic", "Cosmic", "lights", "layers", "groove"} -> 6
      [] tok \in {"[abc]", "synth", "night", "abyss"} -> 5
      [] tok \in {"Pop"} -> 3
      [] OTHER -> 4

RECURSIVE SumLen(_)
SumLen(t) == IF t = <<>> THEN 0 ELSE TokLen(Head(t)) + 1 + SumLen(Tail(t))

\* len(text): the tokens joined by single blanks
CharLen(t) == IF t = <<>> THEN 0 ELSE SumLen(t) - 1

----------------------------------------------------------------------------
(* Text helpers                                                            *)

RECURSIVE DropLead(_, _)
DropLead(t, S) ==
    IF t # <<>> /\ Head(t) \in S THEN DropLead(Tail(t), S) ELSE t

RECURSIVE DropTrail(_, _)
DropTrail(t, S) ==
    IF t # <<>> /\ t[Len(t)] \in S
    THEN DropTrail(SubSeq(t, 1, Len(t) - 1), S)
    ELSE t

\* str.strip()
Trim(t) == DropTrail(DropLead(t, {WS}), {WS})

\* re.sub(r"\s+", " ", text) on a stripped text
Collapse(t) == SelectSeq(t, LAMBDA x : x # WS)

\* str.lower()
LowerText(t) == [i \in 1..Len(t) |-> Lower(t[i])]

\* text.split()
Words(t) == SelectSeq(t, LAMBDA x : x # WS)

_normalize_suggestion_text(text) == Collapse(LowerText(Trim(text)))

----------------------------------------------------------------------------
(* Values shared by the duration functions                                 *)

\* the duration limits of _normalize_duration_seconds and of the duration
\* validators
MinSeconds == 10
MaxSeconds == 72000

\* a duration hint is <<n>> for the integer n, and None for a value int()
\* does not take
None == <<>>

----------------------------------------------------------------------------
(* Duration texts (server.py 1812-1857, 1892-1928)                         *)
(*                                                                         *)
(* For the duration functions a text is the sequence of its characters.    *)

Digits == {"0", "1", "2", "3", "4", "5", "6", "7", "8", "9"}

\* whitespace characters (str.strip(), \s)
Blanks == {" ", "\n"}

DigitVal(c) ==
    CASE c = "0" -> 0 [] c = "1" -> 1 [] c = "2" -> 2 [] c = "3" -> 3
      [] c = "4" -> 4 [] c = "5" -> 5 [] c = "6" -> 6 [] c = "7" -> 7
      [] c = "8" -> 8 [] c = "9" -> 9

DigitChar(d) == <<"0", "1", "2", "3", "4", "5", "6", "7", "8", "9">>[d + 1]

\* f"{n}" of an integer n >= 0
RECURSIVE Str(_)
Str(n) ==
    IF n < 10 THEN <<DigitChar(n)>>
    ELSE Str(n \div 10) \o <<DigitChar(n % 10)>>

\* the number written by a sequence of digits
RECURSIVE DigitsValue(_)
DigitsValue(t) ==
    IF t = <<>> THEN 0
    ELSE DigitsValue(SubSeq(t, 1, Len(t) - 1)) * 10 + DigitVal(t[Len(t)])

\* str.isdigit()
isdigit(t) == t # <<>> /\ \A i \in 1..Len(t) : t[i] \in Digits

\* str.strip()
strip(t) == DropTrail(DropLead(t, Blanks), Blanks)

\* what int() raises on a text that writes no integer
ValueError == None

\* int(text): <<n>>, or ValueError; blanks around the number and a sign in
\* front of it are taken
int(t) ==
    LET s == strip(t)
        signed == s # <<>> /\ s[1] \in {"-", "+"}
        body == IF signed THEN Tail(s) ELSE s
    IN  IF ~isdigit(body) THEN ValueError
        ELSE IF signed /\ s[1] = "-" THEN <<0 - DigitsValue(body)>>
        ELSE <<DigitsValue(body)>>

\* text.split(sep)
RECURSIVE split(_, _)
split(t, sep) ==
    IF \A i \in 1..Len(t) : t[i] # sep THEN <<t>>
    ELSE LET k == CHOOSE i \in 1..Len(t) :
                    t[i] = sep /\ \A j \in 1..(i - 1) : t[j] # sep
         IN  <<SubSeq(t, 1, k - 1)>> \o split(SubSeq(t, k + 1, Len(t)), sep)

\* the last index of the run of digits that starts at i
RECURSIVE RunEnd(_, _)
RunEnd(t, i) == IF i < Len(t) /\ t[i + 1] \in Digits THEN RunEnd(t, i + 1) ELSE i

\* the first index from i on that holds no blank
RECURSIVE SkipBlanks(_, _)
SkipBlanks(t, i) == IF i <= Len(t) /\ t[i] \in Blanks THEN SkipBlanks(t, i + 1) ELSE i

\* (\d+)\s*unit matches with the group starting at i: a run of digits,
\* blanks, the unit letter (a match that starts inside a run implies one at
\* the start of the run, which is further left)
MatchAt(t, i, unit) ==
    /\ t[i] \in Digits
    /\ (i = 1 \/ t[i - 1] \notin Digits)
    /\ LET j == SkipBlanks(t, RunEnd(t, i) + 1)
       IN  j <= Len(t) /\ t[j] = unit

\* re.search(r"(\d+)\s*unit", raw): <<int(group(1))>> of the leftmost match,
\* or None
re_search(unit, raw) ==
    IF \A i \in 1..Len(raw) : ~MatchAt(raw, i, unit) THEN None
    ELSE LET i == CHOOSE k \in 1..Len(raw) :
                    MatchAt(raw, k, unit) /\ \A j \in 1..(k - 1) : ~MatchAt(raw, j, unit)
         IN  <<DigitsValue(SubSeq(raw, i, RunEnd(raw, i)))>>

\* the value of a regex group, 0 when there was no match
GroupOr0(m) == IF m = None THEN 0 ELSE m[1]

\* the rendering without the seconds that remain after the minutes
RenderSeconds_minutesOnly(seconds) ==
    IF seconds < 60 THEN Str(seconds) \o <<"s">>
    ELSE Str(seconds \div 60) \o <<"m">>

\* "Ns" below one minute, else "Mm" or "MmRs" (1849-1857, 1923-1928)
RenderSeconds(seconds) ==
    LET minutes == seconds \div 60
        rem == seconds % 60
    IN  IF seconds < 60 THEN Str(seconds) \o <<"s">>
        ELSE IF rem = 0 THEN Str(minutes) \o <<"m">>
        ELSE Str(minutes) \o <<"m">> \o Str(rem) \o <<"s">>

\* a part of a text with ":" is no integer: int(p) raises ValueError
ColonRaises(raw) ==
    LET parts == split(raw, ":")
    IN  \E i \in 1..Len(parts) : int(parts[i]) = ValueError

\* the seconds a text with ":" writes: <<n>>, or None when a part is no
\* integer or there are not 2 or 3 parts
ColonSeconds(raw) ==
    LET parts == split(raw, ":")
        vals == [i \in 1..Len(parts) |-> int(parts[i])]
    IN  IF \E i \in 1..Len(vals) : vals[i] = ValueError THEN None
        ELSE IF Len(vals) = 2 THEN <<vals[1][1] * 60 + vals[2][1]>>
        ELSE IF Len(vals) = 3
             THEN <<vals[1][1] * 3600 + vals[2][1] * 60 + vals[3][1]>>
        ELSE None

\* the seconds the h, m and s groups add up to
UnitSeconds(raw) ==
    GroupOr0(re_search("h", raw)) * 3600
      + GroupOr0(re_search("m", raw)) * 60
      + GroupOr0(re_search("s", raw))

\* raw.split("\n")[0]
FirstLine(t) == split(t, "\n")[1]

\* the seconds a stripped, lower-case line writes (1820-1846): <<n>>, or
\* None when the text is rejected
SecondsOf(raw) ==
    IF isdigit(raw) THEN <<DigitsValue(raw)>>
    ELSE IF \E i \in 1..Len(raw) : raw[i] = ":" THEN ColonSeconds(raw)
    ELSE IF /\ re_search("h", raw) = None
            /\ re_search("m", raw) = None
            /\ re_search("s", raw) = None THEN None
    ELSE <<UnitSeconds(raw)>>

\* the clamped seconds as a text (1848-1857)
ClampedText(seconds) ==
    LET low == IF seconds[1] < MinSeconds THEN MinSeconds ELSE seconds[1]
        capped == IF low > MaxSeconds THEN MaxSeconds ELSE low
    IN  IF seconds = None THEN <<>> ELSE RenderSeconds(capped)

\* each stage is computed once, from the value of the stage before; an
\* empty raw text gives "" (1815-1816)
validate_duration_suggestion(text) ==
    CHOOSE out \in
        { ClampedText(seconds) :
            seconds \in { IF raw = <<>> THEN None ELSE SecondsOf(raw) :
                raw \in { strip(FirstLine(raw0)) :
                    raw0 \in {strip(LowerText(text))} } } } : TRUE

\* the seconds of a validated text (1896-1918)
ParseValidated(raw) ==
    LET has_colon == \E i \in 1..Len(raw) : raw[i] = ":"
        total == UnitSeconds(raw)
    IN  IF isdigit(raw) THEN <<DigitsValue(raw)>>
        ELSE IF has_colon /\ ColonRaises(raw) THEN None
        ELSE IF has_colon /\ ColonSeconds(raw) # None THEN ColonSeconds(raw)
        ELSE IF total > 0 THEN <<total>> ELSE None

_duration_text_to_seconds(text) ==
    CHOOSE seconds \in
        { IF value = <<>> THEN None ELSE ParseValidated(strip(LowerText(value))) :
            value \in {validate_duration_suggestion(text)} } : TRUE

_seconds_to_duration_text(seconds) ==
    LET capped == IF seconds < MaxSeconds THEN seconds ELSE MaxSeconds
        clamped == IF capped > MinSeconds THEN capped ELSE MinSeconds
    IN  RenderSeconds(clamped)

----------------------------------------------------------------------------
(* List suggestions (server.py 1123-1172, 1859-1889)                       *)
(*                                                                         *)
(* As for durations, a text is the sequence of its characters.             *)

LowerAlphabet ==
    <<"a", "b", "c", "d", "e", "f", "g", "h", "i", "j", "k", "l", "m",
      "n", "o", "p", "q", "r", "s", "t", "u", "v", "w", "x", "y", "z">>
UpperAlphabet ==
    <<"A", "B", "C", "D", "E", "F", "G", "H", "I", "J", "K", "L", "M",
      "N", "O", "P", "Q", "R", "S", "T", "U", "V", "W", "X", "Y", "Z">>

LowerChar(c) ==
    IF \E i \in 1..26 : UpperAlphabet[i] = c
    THEN LowerAlphabet[CHOOSE i \in 1..26 : UpperAlphabet[i] = c]
    ELSE c
UpperChar(c) ==
    IF \E i \in 1..26 : LowerAlphabet[i] = c
    THEN UpperAlphabet[CHOOSE i \in 1..26 : LowerAlphabet[i] = c]
    ELSE c
IsLetter(c) == LowerChar(c) # c \/ UpperChar(c) # c

\* str.lower()
lower(t) == [i \in 1..Len(t) |-> LowerChar(t[i])]

\* str.title(): a letter is upper case after a character that is no letter
\* and lower case after a letter
title(t) ==
    [i \in 1..Len(t) |->
        IF i > 1 /\ IsLetter(t[i - 1]) THEN LowerChar(t[i]) ELSE UpperChar(t[i])]

\* needle in text
Contains(text, needle) ==
    \E i \in 0..(Len(text) - Len(needle)) :
        \A k \in 1..Len(needle) : text[i + k] = needle[k]

\* the elements of seq at the indices of keep, in their order
Pick(seq, keep) ==
    [k \in 1..Cardinality(keep) |->
        seq[CHOOSE i \in keep : Cardinality({x \in keep : x < i}) = k - 1]]

\* seq[:n]
FirstN(seq, n) == SubSeq(seq, 1, IF Len(seq) < n THEN Len(seq) ELSE n)

\* ", ".join(seq)
RECURSIVE JoinComma(_)
JoinComma(seq) ==
    IF seq = <<>> THEN <<>>
    ELSE IF Len(seq) = 1 THEN seq[1]
    ELSE seq[1] \o <<",", " ">> \o JoinComma(Tail(seq))

\* the entries of LANGUAGE_KNOWLEDGE_BASE (339-353) and of get_all_genres()
\* (361-365, sorted) that the texts of ListTexts can resolve to, in the order
\* of the source
LANGUAGE_KNOWLEDGE_BASE ==
    << <<"I", "n", "s", "t", "r", "u", "m", "e", "n", "t", "a", "l">>,
       <<"E", "n", "g", "l", "i", "s", "h">>,
       <<"S", "p", "a", "n", "i", "s", "h">>,
       <<"F", "r", "e", "n", "c", "h">>,
       <<"C", "h", "i", "n", "e", "s", "e", " ", "(", "M", "a", "n", "d", "a", "r", "i", "n", ")">>,
       <<"A", "r", "a", "b", "i", "c">>,
       <<"S", "p", "a", "n", "i", "s", "h", " ", "(", "L", "a", "t", "i", "n", " ", "A", "m", "e", "r", "i", "c", "a", ")">> >>

get_all_genres ==
    << <<"A", "f", "r", "o", " ", "F", "u", "s", "i", "o", "n">>,
       <<"D", "e", "e", "p", " ", "H", "o", "u", "s", "e">>,
       <<"H", "i", "p", "-", "H", "o", "p">>,
       <<"H", "o", "u", "s", "e">>,
       <<"J", "a", "z", "z">>,
       <<"P", "o", "p">>,
       <<"P", "r", "o", "g", "r", "e", "s", "s", "i", "v", "e", " ", "H", "o", "u", "s", "e">>,
       <<"R", "&", "B">>,
       <<"R", "o", "c", "k">>,
       <<"T", "e", "c", "h", "n", "o">> >>

\* aliases of _best_match_from_choices (1151-1162)
aliases ==
    << <<<<"m", "a", "n", "d", "a", "r", "i", "n">>,
         <<"C", "h", "i", "n", "e", "s", "e", " ", "(", "M", "a", "n", "d", "a", "r", "i", "n", ")">>>>,
       <<<<"c", "a", "n", "t", "o", "n", "e", "s", "e">>,
         <<"C", "h", "i", "n", "e", "s", "e", " ", "(", "C", "a", "n", "t", "o", "n", "e", "s", "e", ")">>>>,
       <<<<"b", "r", "a", "z", "i", "l", "i", "a", "n", " ", "p", "o", "r", "t", "u", "g", "u", "e", "s", "e">>,
         <<"P", "o", "r", "t", "u", "g", "u", "e", "s", "e", " ", "(", "B", "r", "a", "z", "i", "l", ")">>>>,
       <<<<"l", "a", "t", "a", "m", " ", "s", "p", "a", "n", "i", "s", "h">>,
         <<"S", "p", "a", "n", "i", "s", "h", " ", "(", "L", "a", "t", "i", "n", " ", "A", "m", "e", "r", "i", "c", "a", ")">>>>,
       <<<<"q", "u", "e", "b", "e", "c", " ", "f", "r", "e", "n", "c", "h">>,
         <<"F", "r", "e", "n", "c", "h", " ", "(", "Q", "u", "e", "b", "e", "c", ")">>>>,
       <<<<"l", "o", "f", "i">>,
         <<"L", "o", "-", "f", "i">>>>,
       <<<<"l", "o", " ", "f", "i">>,
         <<"L", "o", "-", "f", "i">>>>,
       <<<<"d", "n", "b">>,
         <<"D", "r", "u", "m", " ", "a", "n", "d", " ", "B", "a", "s", "s">>>>,
       <<<<"h", "i", "p", " ", "h", "o", "p">>,
         <<"H", "i", "p", "-", "H", "o", "p">>>>,
       <<<<"r", "n", "b">>,
         <<"R", "&", "B">>>> >>

ListSeparators == {"\n", ",", ";", "/", "|"}
NumberingMarks == {")", ".", "-", ":"}
\* the characters the items are stripped of: double quote, quote, backquote
QuoteChars == {"\"", "'", "backquote"}

\* re.split(r"[\n,;/|]+", text), without the empty parts (which line 1131
\* drops): the maximal runs of characters that are no separator
RawParts(text) ==
    LET starts == {i \in 1..Len(text) :
                     /\ text[i] \notin ListSeparators
                     /\ (i = 1 \/ text[i - 1] \in ListSeparators)}
        End(s) == CHOOSE e \in s..Len(text) :
                     /\ \A j \in s..e : text[j] \notin ListSeparators
                     /\ (e = Len(text) \/ text[e + 1] \in ListSeparators)
        ordered == Pick([i \in 1..Len(text) |-> i], starts)
    IN  [k \in 1..Len(ordered) |-> SubSeq(text, ordered[k], End(ordered[k]))]

\* re.sub(r"^\s*\d+[\)\.\-:]*\s*", "", item).strip(), and the quote
\* characters at both ends go
CleanItem(item) ==
    LET lead == DropLead(item, Blanks)
        unnumbered ==
            IF lead # <<>> /\ lead[1] \in Digits
            THEN DropLead(DropLead(DropLead(lead, Digits), NumberingMarks), Blanks)
            ELSE item
    IN  DropTrail(DropLead(strip(unnumbered), QuoteChars), QuoteChars)

\* the first of the items that are equal in lower case
Unique(parts) ==
    Pick(parts, {i \in 1..Len(parts) :
                   \A j \in 1..(i - 1) : lower(parts[j]) # lower(parts[i])})

_split_list_like_text(text) ==
    CHOOSE unique \in
        { Unique(SelectSeq(cleaned, LAMBDA p : p # <<>>)) :
            cleaned \in { [k \in 1..Len(raw_parts) |-> CleanItem(raw_parts[k])] :
                raw_parts \in {RawParts(text)} } } : TRUE

\* the first choice that contains the token or is contained in it, else
\* None (1165-1172)
FirstLoose(token, choices) ==
    IF \A i \in 1..Len(choices) :
         /\ ~Contains(lower(choices[i]), token)
         /\ ~Contains(token, lower(choices[i]))
    THEN None
    ELSE choices[CHOOSE i \in 1..Len(choices) :
                   /\ Contains(lower(choices[i]), token) \/ Contains(token, lower(choices[i]))
                   /\ \A j \in 1..(i - 1) :
                        /\ ~Contains(lower(choices[j]), token)
                        /\ ~Contains(token, lower(choices[j]))]

\* the match of a stripped lower-case token: the choice equal to it in lower
\* case, else the choice its alias names, else the first loose match
MatchToken(token, choices) ==
    LET exact == {i \in 1..Len(choices) : lower(choices[i]) = token}
        named == {a \in 1..Len(aliases) :
                    /\ aliases[a][1] = token
                    /\ \E i \in 1..Len(choices) :
                         lower(choices[i]) = lower(aliases[a][2])}
    IN  IF token = <<>> THEN None
        ELSE IF exact # {} THEN choices[CHOOSE i \in exact : \A j \in exact : j <= i]
        ELSE IF named # {}
             THEN LET a == CHOOSE x \in named : TRUE
                  IN  choices[CHOOSE i \in 1..Len(choices) :
                                lower(choices[i]) = lower(aliases[a][2])]
        ELSE FirstLoose(token, choices)

_best_match_from_choices(value, choices) ==
    CHOOSE match \in { MatchToken(token, choices) :
                         token \in {lower(strip(value))} } : TRUE

\* the matches of the items, each once, in the order of the items (1866-1870,
\* 1880-1884)
Canonical(items, choices) ==
    CHOOSE canonical \in
        { Pick(matches, {i \in 1..Len(matches) :
                           /\ matches[i] # None
                           /\ \A j \in 1..(i - 1) : matches[j] # matches[i]}) :
            matches \in { [i \in 1..Len(items) |->
                             _best_match_from_choices(items[i], choices)] } } : TRUE

\* item.strip().title() of the items of more than two characters (1874)
Fallback(items) ==
    LET titled == [i \in 1..Len(items) |-> title(strip(items[i]))]
    IN  Pick(titled, {i \in 1..Len(items) : Len(strip(items[i])) > 2})

GenresText(items) ==
    LET canonical == Canonical(items, get_all_genres)
    IN  IF canonical # <<>> THEN JoinComma(FirstN(canonical, 4))
        ELSE JoinComma(FirstN(Fallback(items), 4))

LanguagesText(text, items) ==
    IF Contains(lower(text), <<"i", "n", "s", "t", "r", "u", "m", "e", "n", "t", "a", "l">>)
    THEN <<"I", "n", "s", "t", "r", "u", "m", "e", "n", "t", "a", "l">>
    ELSE JoinComma(FirstN(Canonical(items, LANGUAGE_KNOWLEDGE_BASE), 3))

validate_list_suggestion(field, text) ==
    IF text = <<>> THEN <<>>
    ELSE IF field \notin {"genres", "vocal_languages"} THEN text
    ELSE CHOOSE out \in
           { IF field = "genres" THEN GenresText(items) ELSE LanguagesText(text, items) :
               items \in {_split_list_like_text(text)} } : TRUE

----------------------------------------------------------------------------
(* _strip_machine_suffixes (server.py 1931-1940)                           *)

\* re.sub(r"\s*\[[0-9a-f]{3,8}\]\s*$", "", cleaned): one trailing tag goes,
\* together with the whitespace in front of it
StripBracketTag(t) ==
    IF t # <<>> /\ t[Len(t)] \in BracketTags
    THEN DropTrail(SubSeq(t, 1, Len(t) - 1), {WS})
    ELSE t

\* re.sub(r"\s+[0-9a-f]{4,8}\s*$", "", cleaned): one trailing hex word goes
\* when whitespace precedes it, i.e. when it is not the first word
StripHexWord(t) ==
    IF Len(t) >= 2 /\ Lower(t[Len(t)]) \in HexWords
    THEN DropTrail(SubSeq(t, 1, Len(t) - 1), {WS})
    ELSE t

\* the fields whose texts are sequences of characters
CharFields == {"genres", "vocal_languages", "duration"}

HexChars == Digits \cup {"a", "b", "c", "d", "e", "f", "A", "B", "C", "D", "E", "F"}

\* the places where a trailing tag \[[0-9a-f]{3,8}\] of a text of characters
\* starts
TagStarts(t) ==
    {i \in 1..Len(t) :
        /\ t[i] = "[" /\ t[Len(t)] = "]"
        /\ (Len(t) - i - 1) \in 3..8
        /\ \A k \in (i + 1)..(Len(t) - 1) : t[k] \in HexChars}

\* re.sub(r"\s+", " ", cleaned) on a text of characters
CollapseChars(t) ==
    LET kept == SelectSeq([i \in 1..Len(t) |-> [c |-> t[i], first |-> i = 1 \/ t[i - 1] \notin Blanks]],
                          LAMBDA x : x.c \notin Blanks \/ x.first)
    IN  [i \in 1..Len(kept) |-> IF kept[i].c \in Blanks THEN " " ELSE kept[i].c]

\* _strip_machine_suffixes on a text of characters; these texts hold no
\* "Variation cue:"
StripChars(text) ==
    LET cleaned0 == strip(text)
        cleaned1 == IF TagStarts(cleaned0) = {} THEN cleaned0
                    ELSE DropTrail(SubSeq(cleaned0, 1, (CHOOSE i \in TagStarts(cleaned0) : TRUE) - 1),
                                   Blanks)
    IN  DropTrail(DropLead(CollapseChars(strip(cleaned1)), {" ", "-"}), {" ", "-"})

_strip_machine_suffixes(field, text) ==
    LET cleaned0 == Trim(text)
        cleaned1 == StripBracketTag(cleaned0)
        cleaned2 == IF field = "title" THEN StripHexWord(cleaned1) ELSE cleaned1
        cleaned3 == Trim(SelectSeq(cleaned2, LAMBDA x : x # VariationCue))
        cleaned4 == Collapse(cleaned3)
    IN  IF field \in CharFields THEN StripChars(text)
        ELSE IF cleaned0 = <<>> THEN <<>>
        ELSE DropTrail(DropLead(cleaned4, {WS, Dash}), {WS, Dash})

----------------------------------------------------------------------------
(* validate_music_specific_suggestion (server.py 1751-1810)                *)

TITLE_BLACKLIST_TERMS == {
    "cathedral", "labyrinth", "monolith", "oracle", "abyss", "relic", "citadel",
    "sanctuary", "altar", "hymn", "epitaph", "requiem", "catacomb", "seraph", "omen"}

TITLE_GENERIC_TERMS == {"song", "track", "music", "untitled", "demo", "test", "vibe"}

\* poetry_indicators that are one word, and those that are two adjacent words
PoetryWords == {"metaphorically", "symbolically"}
PoetryPairs == {<<"there", "was">>, <<"a", "tale">>, <<"a", "story">>,
                <<"the", "end">>, <<"dear", "reader">>, <<"imagine", "if">>,
                <<"picture", "yourself">>}

music_keywords == {
    "acoustic", "electronic", "synth", "beat", "rhythm",
    "tempo", "bpm", "reverb", "echo", "delay", "filter",
    "frequency", "bass", "treble", "chord", "melody",
    "production", "mix", "master", "eq", "compression",
    "vocal", "instrumental", "drum", "guitar", "piano",
    "layer", "texture", "ambient", "lofi", "breakcore",
    "vibe", "mood", "energy", "dynamic", "groove"}

\* tokens that hold one of the characters  : ; / \ { } [ ]
PunctTokens == BracketTags \cup {VariationCue}

HasPoetryFlag(text_lower) ==
    \/ \E i \in 1..Len(text_lower) : text_lower[i] \in PoetryWords
    \/ \E i \in 1..(Len(text_lower) - 1) :
          <<text_lower[i], text_lower[i + 1]>> \in PoetryPairs

HasTerm(text_lower, terms) ==
    \E i \in 1..Len(text_lower) : text_lower[i] \in terms

validate_music_specific_suggestion(field, text) ==
    LET text_lower == LowerText(text)
        words == Words(text)
    IN  IF HasPoetryFlag(text_lower) THEN <<>>
        ELSE IF field = "music_prompt" /\ ~HasTerm(text_lower, music_keywords) THEN <<>>
        ELSE IF field = "music_prompt" /\ Len(words) < 5 THEN <<>>
        ELSE IF field = "video_style" /\ Len(words) < 10 THEN <<>>
        ELSE IF field = "title" /\ (Len(words) < 1 \/ Len(words) > 6) THEN <<>>
        ELSE IF field = "title" /\ CharLen(text) > 44 THEN <<>>
        ELSE IF field = "title" /\ HasTerm(text_lower, TITLE_BLACKLIST_TERMS) THEN <<>>
        ELSE IF field = "title" /\ HasTerm(text, PunctTokens) THEN <<>>
        ELSE IF field = "title" /\ HasTerm(text_lower, TITLE_GENERIC_TERMS) THEN <<>>
        ELSE IF /\ field = "title"
                /\ Len(text_lower) >= 2
                /\ text_lower[1] \in {"the", "a", "an"}
                /\ Len(words) <= 2 THEN <<>>
        ELSE text

MusicSpecificFields == {"music_prompt", "lyrics", "video_style", "title"}

\* the validation step of one attempt (generate_ai_suggestion 1715-1720 and
\* _enforce_unique_suggestion 1955-1960)
ValidateForField(field, text) ==
    IF field \in MusicSpecificFields
    THEN validate_music_specific_suggestion(field, text)
    ELSE IF field \in {"genres", "vocal_languages"}
    THEN validate_list_suggestion(field, text)
    ELSE IF field = "duration"
    THEN validate_duration_suggestion(text)
    ELSE text

----------------------------------------------------------------------------
(* Bounds and input sets                                                   *)

\* number of suggest requests issued in one behaviour of Spec
MaxRequests == 2

\* number of suggest requests issued in one behaviour of SpecLoop
LoopRequests == 1

\* server processes sharing the persistent store; each has its own
\* RECENT_SUGGESTIONS
Procs == {"p1", "p2"}

\* request slots: requests that may be in flight at the same time
Reqs == {"r1", "r2"}

Fields == {"title", "music_prompt", "lyrics", "artist_inspiration", "video_style"}

\* the fields requested in Spec, where requests run concurrently
EngineFields == {"title", "lyrics"}

\* values of the SUGGEST_MAX_ATTEMPTS environment variable
AttemptEnvValues == {1, 3}

\* user_id of a request ("" stands for None)
Users == {"", "u1"}

\* request contexts: the music_prompt entry is a JSON value, either a string
\* or a number
\* (the genres entry is a list, or a JSON value of another type)
GoodContext ==
    [music_prompt |-> [type |-> "str", val |-> "dark pop"], title |-> "",
     genres |-> [type |-> "list", val |-> <<>>]]
BadContext == [GoodContext EXCEPT !.music_prompt = [type |-> "num", val |-> "5"]]
Contexts == {GoodContext, BadContext}

\* what _suggestion_from_music_context may extract for a field from the
\* coerced generator output
GeneratorTexts(field) ==
    CASE field = "title" ->
           { <<"Neon", "Sky">>,
             <<"Neon", "Sky", "dead", "beef", "cafe">>,
             <<"The", "Neon", "dead", "beef", "cafe">>,
             <<"the", "song">> }
      [] field = "music_prompt" ->
           { <<"warm", "synth", "bass", "groove", "layers">>,
             <<"warm", "night">> }
      [] field = "lyrics" ->
           { <<"city", "lights">>,
             <<"city", "lights", "[abc]", "[abc]", "[abc]">>,
             <<"metaphorically", "city", "lights">>,
             <<>> }
      [] field = "artist_inspiration" ->
           { <<"Daft", "Punk">>,
             <<"metaphorically", "Daft", "Punk">> }
      [] field = "video_style" ->
           { <<"neon", "city", "lights", "and", "warm", "night", "sky",
               "with", "slow", "pans">>,
             <<"neon", "city">> }

\* current_value of a request
CurrentValues(field) ==
    CASE field = "title" -> { <<>>, <<WS, "NEON", WS, "sky">> }
      [] field = "lyrics" -> { <<>>, <<"City", "lights", WS>> }
      [] field = "artist_inspiration" -> { <<>>, <<"daft", "punk">> }
      [] OTHER -> { <<>> }

\* the arguments of one suggest request
Inputs ==
    UNION { [field : {f}, user_id : Users, context : Contexts,
             current_value : CurrentValues(f)] : f \in Fields }

\* the requests issued in SpecLoop: anonymous ones (user_id None)
LoopInputs == {i \in Inputs : i.user_id = ""}

\* the requests issued in Spec: well-formed contexts, nothing typed into the
\* field yet
EngineInputs ==
    {i \in Inputs : /\ i.field \in EngineFields
                    /\ i.context = GoodContext
                    /\ i.current_value = <<>>}

----------------------------------------------------------------------------
(* Configuration (server.py 58-80)                                         *)

\* SUGGEST_MAX_ATTEMPTS = max(1, min(int(env), 6))
SUGGEST_MAX_ATTEMPTS(envValue) ==
    LET capped == IF envValue < 6 THEN envValue ELSE 6
    IN  IF capped > 1 THEN capped ELSE 1

\* range(max(2, SUGGEST_MAX_ATTEMPTS)) of generate_ai_suggestion
LoopBound(maxAttempts) == IF maxAttempts > 2 THEN maxAttempts ELSE 2

\* _ai_provider_order
_ai_provider_order(provider) ==
    IF provider = "openai" THEN <<"openai", "gemini">> ELSE <<"gemini", "openai">>

\* the persistent store of a deployment: db has no suggestion collections
\* (the FakeDB of the tests), or it has them and any operation on them may
\* raise, or it has them and every operation on them raises
StoreModes == {"absent", "flaky", "down"}

\* GEMINI_API_KEY / openai_client present, AI_SUGGEST_PROVIDER, the
\* SUGGEST_MAX_ATTEMPTS env value, and the store
\* (with no credentials at all the provider order plays no part)
Envs ==
    { e \in [ gemini : BOOLEAN, openai : BOOLEAN, provider : {"gemini", "openai"},
              attempts_env : AttemptEnvValues, store : StoreModes ] :
        e.gemini \/ e.openai \/ e.provider = "gemini" }

\* the deployments of Spec: the one of tests/test_api_runtime_flows.py (an
\* OpenAI client only) with the suggestion collections on the store, and one
\* with no credentials and no suggestion collections
EngineEnvs ==
    { [gemini |-> FALSE, openai |-> TRUE, provider |-> "gemini",
       attempts_env |-> 1, store |-> "flaky"],
      [gemini |-> FALSE, openai |-> FALSE, provider |-> "gemini",
       attempts_env |-> 1, store |-> "absent"] }

----------------------------------------------------------------------------
(* Error messages: str(exc) of what an attempt can raise                   *)

MissingKeyMsg(provider) ==
    IF provider = "gemini" THEN "GEMINI_API_KEY is missing"
    ELSE "OPENAI_API_KEY is missing"

\* messages of failed provider calls, by kind of failure
AuthMsg == "invalid_api_key"
QuotaMsg == "insufficient_quota"
RateLimitMsg == "rate_limit_exceeded"
TimeoutMsg == "Request timed out."
ProviderErrorMsgs == {AuthMsg, QuotaMsg, RateLimitMsg, TimeoutMsg}
NonRetryableMsgs == {AuthMsg, QuotaMsg, RateLimitMsg}

\* str(HTTPException(503, ...)) raised by _build_music_context
Unavailable503Msg == "503: AI suggestion is unavailable. Set GEMINI_API_KEY or OPENAI_API_KEY."
\* int(ctx.get("tempoProfile")) of _coerce_music_context on a non-numeric text
CoerceErrorMsg == "invalid literal for int() with base 10"
EmptyMsg == "Empty suggestion after validation"
DuplicateMsg == "Suggestion duplicated with prior outputs"

\* len(str(exc)); provider SDK errors quote the whole response body
MsgLen(msg) ==
    CASE msg \in NonRetryableMsgs -> 310
      [] msg = TimeoutMsg -> 18
      [] msg = Unavailable503Msg -> 76
      [] msg = CoerceErrorMsg -> 46
      [] msg = EmptyMsg -> 33
      [] msg = DuplicateMsg -> 40
      [] OTHER -> 25

\* "insufficient_quota" in err_text or "invalid_api_key" in err_text or
\* "rate_limit" in err_text
HasAbortMarker(msg) == msg \in {QuotaMsg, AuthMsg, RateLimitMsg}

\* last_error[:240]
UpstreamLimit == 240
Truncated(n) == IF n < UpstreamLimit THEN n ELSE UpstreamLimit

----------------------------------------------------------------------------
(* Scope & history tracker (server.py 725-808)                             *)

\* RECENT_SUGGESTIONS[field] = bucket[-30:]
RecentCacheSize == 30
\* limit of _load_recent_scope_suggestions
HistoryLimit == 40

LastN(seq, n) ==
    IF Len(seq) <= n THEN seq ELSE SubSeq(seq, Len(seq) - n + 1, Len(seq))

Range(seq) == {seq[i] : i \in 1..Len(seq)}

\* _remember_suggestion without the cut bucket[-30:]
_remember_suggestion_unbounded(bucket, suggestion) ==
    LET text == LowerText(Trim(suggestion))
    IN  IF text = <<>> THEN bucket
        ELSE IF text \in Range(bucket) THEN bucket
        ELSE Append(bucket, text)

\* the new bucket of RECENT_SUGGESTIONS[field] after _remember_suggestion
_remember_suggestion(bucket, suggestion) ==
    LET text == LowerText(Trim(suggestion))
    IN  IF text = <<>> THEN bucket
        ELSE IF text \in Range(bucket) THEN bucket
        ELSE LastN(Append(bucket, text), RecentCacheSize)

\* (context.get("music_prompt") or "")[:280] raises TypeError on a number
ScopeKeyRaises(context) == context.music_prompt.type # "str"

\* compact_context (743-750): the prompt, and the first 6 genres when the
\* genres entry is a list
compact_context(context) ==
    [ music_prompt |-> context.music_prompt.val,
      genres |-> IF context.genres.type = "list"
                 THEN SubSeq(context.genres.val, 1,
                             IF Len(context.genres.val) < 6
                             THEN Len(context.genres.val) ELSE 6)
                 ELSE <<>> ]

\* the texts between the "|" characters of a user id or of a field name
Segments(text) ==
    CASE text = "u1|title" -> <<"u1", "title">>
      [] text = "title|x" -> <<"title", "x">>
      [] OTHER -> <<text>>

\* sha256 of scope_payload, taken as injective.  scope_payload is
\* f"{user_id or 'global'}|{field}|{json}" (751): prefix holds the texts
\* that "|" separates in front of the JSON text of compact_context
_build_suggestion_scope_key(field, context, user_id) ==
    [ prefix |-> Segments(IF user_id = "" THEN "global" ELSE user_id)
                   \o Segments(field),
      compact |-> compact_context(context) ]

\* the records find({"field": field, "scope_key": scope_key}) matches, in
\* insertion order
Matching(hist, field, scope_key) ==
    SelectSeq(hist, LAMBDA d : d.field = field /\ d.scope_key = scope_key)

\* the sets of k indices among 1..n
RECURSIVE IndexSets(_, _)
IndexSets(n, k) ==
    IF k = 0 THEN {{}}
    ELSE IF n < k THEN {}
    ELSE IndexSets(n - 1, k) \cup {S \cup {n} : S \in IndexSets(n - 1, k - 1)}

\* to_list(limit) with no sort on the cursor: the store returns `limit` of
\* the matching records, and which ones is the store's choice
FindResults(docs, limit) ==
    IF Len(docs) <= limit THEN {Range(docs)}
    ELSE { {docs[i] : i \in (1..Len(docs)) \ left} :
             left \in IndexSets(Len(docs), Len(docs) - limit) }

\* the texts the loop of _load_recent_scope_suggestions adds to seen
NormalizedOf(docs) ==
    {_normalize_suggestion_text(d.suggestion) : d \in docs} \ {<<>>}

\* an update that only inserts the counter document, with turn 1
UpsertIncrement_insertOnly(ctrs, key) ==
    IF key \in DOMAIN ctrs THEN ctrs ELSE ctrs @@ (key :> 1)

\* update_one(..., {"$inc": {"turn": 1}}, upsert=True)
UpsertIncrement(ctrs, key) ==
    IF key \in DOMAIN ctrs THEN [ctrs EXCEPT ![key] = @ + 1]
    ELSE ctrs @@ (key :> 1)

----------------------------------------------------------------------------
(* _enforce_unique_suggestion (server.py 1943-1973)                        *)

_enforce_unique_suggestion(field, suggestion, current_value, seen_in_scope, bucket) ==
    LET candidate0 == _strip_machine_suffixes(field, suggestion)
        candidate == ValidateForField(field, candidate0)
        normalized == _normalize_suggestion_text(candidate)
        current_norm == _normalize_suggestion_text(current_value)
        seen == {_normalize_suggestion_text(x) : x \in (seen_in_scope \ {<<>>})}
                  \cup {_normalize_suggestion_text(x) : x \in (Range(bucket) \ {<<>>})}
    IN  IF candidate0 = <<>> THEN <<>>
        ELSE IF candidate = <<>> THEN <<>>
        ELSE IF current_norm # <<>> /\ normalized = current_norm THEN <<>>
        ELSE IF normalized \in seen THEN <<>>
        ELSE candidate

\* the text _finalize_unique_suggestion (server.py 1986-1996) accepts, or <<>>
FinalizedText(field, suggestion, current_value, seen_in_scope, bucket) ==
    _strip_machine_suffixes(field,
        _enforce_unique_suggestion(field, suggestion, current_value, seen_in_scope, bucket))

----------------------------------------------------------------------------
(* _generate_context_text (server.py 170-181)                              *)

\* what one provider call can do: the key is missing (no call is made), the
\* call returns content, or the call fails
ProviderOutcomes(provider, env) ==
    IF (provider = "gemini" /\ ~env.gemini) \/ (provider = "openai" /\ ~env.openai)
    THEN { [ok |-> FALSE, msg |-> MissingKeyMsg(provider), called |-> 0] }
    ELSE { [ok |-> TRUE, msg |-> "", called |-> 1] }
         \cup { [ok |-> FALSE, msg |-> m, called |-> 1] : m \in ProviderErrorMsgs }

\* the providers are tried in order; the first content is returned, and when
\* all fail RuntimeError(last_error) carries the message of the last one
_generate_context_text(env) ==
    LET order == _ai_provider_order(env.provider)
    IN  { IF o1.ok
          THEN [ok |-> TRUE, msg |-> "", calls |-> o1.called, nonretry |-> FALSE]
          ELSE [ok |-> o2.ok,
                msg |-> IF o2.ok THEN "" ELSE o2.msg,
                calls |-> o1.called + o2.called,
                nonretry |-> (o1.called = 1 /\ o1.msg \in NonRetryableMsgs)
                              \/ (o2.called = 1 /\ ~o2.ok /\ o2.msg \in NonRetryableMsgs)]
          : o1 \in ProviderOutcomes(order[1], env),
            o2 \in ProviderOutcomes(order[2], env) }

----------------------------------------------------------------------------
(* State                                                                   *)

VARIABLES
    env,                 \* configuration of the deployment
    history,             \* db.suggestion_history, in insertion order
    counters,            \* db.suggestion_counters: scope key -> turn
    RECENT_SUGGESTIONS,  \* per process: field -> list of recent texts
    req,                 \* the requests in flight, per slot
    budget,              \* number of requests still to be issued
    used_audio_urls,     \* the used set a caller hands to select_audio_for_genres
    calls,               \* the calls of select_audio_for_genres made so far
    sel_input,           \* the arguments of the select_audio_for_genres calls
    probe                \* a validator or key function, its argument and result

vars == <<env, history, counters, RECENT_SUGGESTIONS, req, budget,
          used_audio_urls, calls, sel_input, probe>>

\* the state outside the suggestion engine
outsideEngine == <<used_audio_urls, calls, sel_input, probe>>

\* no asset selected, nothing validated
OutsideEngineIdle ==
    /\ used_audio_urls = {}
    /\ calls = <<>>
    /\ sel_input = <<>>
    /\ probe = <<>>

NoKey == [prefix |-> <<>>, compact |-> [music_prompt |-> "", genres |-> <<>>]]

IdleReq ==
    [ pc |-> "idle", proc |-> "p1", field |-> "", current_value |-> <<>>,
      user_id |-> "", scope_key |-> NoKey, seen_in_scope |-> {},
      attempt |-> 0, last_error |-> "", unique |-> <<>>,
      outcome |-> "", diag_len |-> 0,
      called |-> FALSE, nonretry |-> FALSE, fallback_calls |-> 0,
      overlapped |-> FALSE ]

InFlight(r) == req[r].pc \notin {"idle", "done"}

\* the first slot stands for the requests served by process p1
ProcsOf(r) == IF r = "r1" THEN {"p1"} ELSE Procs

\* ("up": the store of a deployment in which every operation returns)
StoreMayWork == env.store \in {"flaky", "up"}
StoreMayFail == env.store \in {"flaky", "down"}

InitWith(envs, requests) ==
    /\ env \in envs
    /\ history = <<>>
    /\ counters = <<>>
    /\ RECENT_SUGGESTIONS = [p \in Procs |-> [f \in Fields |-> <<>>]]
    /\ req = [r \in Reqs |-> IdleReq]
    /\ budget = requests
    /\ OutsideEngineIdle

Init == InitWith(EngineEnvs, MaxRequests)

InitLoop == InitWith(Envs, LoopRequests)

----------------------------------------------------------------------------
(* generate_ai_suggestion (server.py 1697-1749), one action per stretch of *)
(* code between two awaits on the store                                    *)

\* a request arrives: the scope key is built and the cache of the field is
\* copied into seen (1704, 756); with no suggestion collections on db both
\* tracker calls return at once
Start(r, inputs) ==
    /\ req[r].pc = "idle"
    /\ budget > 0
    /\ \E p \in ProcsOf(r), i \in inputs :
         LET f == i.field
             u == i.user_id
             c == i.context
             cv == i.current_value
             base == [IdleReq EXCEPT !.proc = p, !.field = f, !.user_id = u,
                                     !.current_value = cv,
                                     !.overlapped = \E o \in Reqs \ {r} : InFlight(o)]
         IN  IF ScopeKeyRaises(c)
             THEN req' = [req EXCEPT ![r] =
                             [base EXCEPT !.pc = "done", !.outcome = "TypeError"]]
             ELSE req' = [o \in Reqs |->
                            IF o = r
                            THEN [base EXCEPT
                                    !.pc = IF env.store = "absent" THEN "attempt" ELSE "find",
                                    !.scope_key = _build_suggestion_scope_key(f, c, u),
                                    !.seen_in_scope = Range(RECENT_SUGGESTIONS[p][f])]
                            ELSE IF InFlight(o) THEN [req[o] EXCEPT !.overlapped = TRUE]
                            ELSE req[o]]
    /\ budget' = budget - 1
    /\ UNCHANGED <<env, history, counters, RECENT_SUGGESTIONS>>
    /\ UNCHANGED outsideEngine

\* _load_recent_scope_suggestions: the find on the store returns, or raises
\* and is logged (760-768)
LoadRecent(r) ==
    /\ req[r].pc = "find"
    /\ \/ /\ StoreMayWork
          /\ \E docs \in FindResults(Matching(history, req[r].field, req[r].scope_key),
                                     HistoryLimit) :
               req' = [req EXCEPT ![r].pc = "turn",
                                  ![r].seen_in_scope = @ \cup NormalizedOf(docs)]
       \/ /\ StoreMayFail
          /\ req' = [req EXCEPT ![r].pc = "turn"]
    /\ UNCHANGED <<env, history, counters, RECENT_SUGGESTIONS, budget>>
    /\ UNCHANGED outsideEngine

\* _next_scope_turn: the upsert-increment is applied (and the turn read back,
\* or the read raises), or the update raises; on either failure a random
\* turn is used (793-808).  The turn only feeds turn_hint, which
\* _enforce_unique_suggestion does not read, so it is not kept.
NextScopeTurn(r) ==
    /\ req[r].pc = "turn"
    /\ \/ /\ StoreMayWork
          /\ counters' = UpsertIncrement(counters, req[r].scope_key)
       \/ /\ StoreMayFail
          /\ counters' = counters
    /\ req' = [req EXCEPT ![r].pc = "attempt"]
    /\ UNCHANGED <<env, history, RECENT_SUGGESTIONS, budget>>
    /\ UNCHANGED outsideEngine

\* the request record after an iteration that did not return: the loop goes
\* on, or it ends (break, or range exhausted) and HTTPException(502) is
\* raised with last_error[:240] in the detail (1746-1749)
AfterRejection(q, msg, break) ==
    IF break \/ q.attempt + 1 >= LoopBound(SUGGEST_MAX_ATTEMPTS(env.attempts_env))
    THEN [q EXCEPT !.pc = "done", !.attempt = @ + 1, !.last_error = msg,
                   !.seen_in_scope = {},
                   !.outcome = "HTTP502", !.diag_len = Truncated(MsgLen(msg))]
    ELSE [q EXCEPT !.attempt = @ + 1, !.last_error = msg]

\* one iteration whose _build_music_context raises (1606-1610, 1646, 1648):
\* caught at 1739, and the loop breaks on the three markers (1743)
AttemptRaises(r) ==
    /\ req[r].pc = "attempt"
    /\ \/ /\ ~env.gemini /\ ~env.openai
          /\ req' = [req EXCEPT ![r] = AfterRejection(@, Unavailable503Msg, FALSE)]
       \/ /\ env.gemini \/ env.openai
          /\ \E g \in _generate_context_text(env) :
               /\ ~g.ok
               /\ req' = [req EXCEPT ![r] =
                            AfterRejection([@ EXCEPT !.called = @ \/ g.calls > 0,
                                                     !.nonretry = @ \/ g.nonretry],
                                           g.msg, HasAbortMarker(g.msg))]
       \/ /\ env.gemini \/ env.openai
          /\ \E g \in _generate_context_text(env) :
               /\ g.ok
               /\ req' = [req EXCEPT ![r] =
                            AfterRejection([@ EXCEPT !.called = @ \/ g.calls > 0,
                                                     !.nonretry = @ \/ g.nonretry],
                                           CoerceErrorMsg, FALSE)]
    /\ UNCHANGED <<env, history, counters, RECENT_SUGGESTIONS, budget>>
    /\ UNCHANGED outsideEngine

\* one iteration whose generator call returns content (1711-1738): strip,
\* validate, then _finalize_unique_suggestion up to its await on the store
AttemptReturns(r) ==
    /\ req[r].pc = "attempt"
    /\ env.gemini \/ env.openai
    /\ \E g \in _generate_context_text(env), raw \in GeneratorTexts(req[r].field) :
         LET q == [req[r] EXCEPT !.called = @ \/ g.calls > 0, !.nonretry = @ \/ g.nonretry]
             bucket == RECENT_SUGGESTIONS[q.proc][q.field]
             suggestion == ValidateForField(q.field,
                               _strip_machine_suffixes(q.field, raw))
             unique == FinalizedText(q.field, suggestion, q.current_value,
                                     q.seen_in_scope, bucket)
         IN  /\ g.ok
             /\ IF suggestion = <<>>
                THEN /\ req' = [req EXCEPT ![r] = AfterRejection(q, EmptyMsg, FALSE)]
                     /\ UNCHANGED RECENT_SUGGESTIONS
                ELSE IF unique = <<>>
                THEN /\ req' = [req EXCEPT ![r] = AfterRejection(q, DuplicateMsg, FALSE)]
                     /\ UNCHANGED RECENT_SUGGESTIONS
                ELSE /\ req' = [req EXCEPT ![r] =
                                  [q EXCEPT !.pc = IF env.store = "absent"
                                                   THEN "done" ELSE "persist",
                                            !.outcome = IF env.store = "absent"
                                                        THEN "ok" ELSE "",
                                            !.attempt = @ + 1,
                                            !.unique = unique,
                                            !.seen_in_scope =
                                                @ \cup {_normalize_suggestion_text(unique)}]]
                     /\ RECENT_SUGGESTIONS' =
                          [RECENT_SUGGESTIONS EXCEPT ![q.proc][q.field] =
                              _remember_suggestion(bucket, unique)]
    /\ UNCHANGED <<env, history, counters, budget>>
    /\ UNCHANGED outsideEngine

\* _persist_scope_suggestion with the try/except around insert_one taken
\* away: the exception of a failing insert reaches the except clause of the
\* attempt loop (1739), which records it and goes on to the next iteration
Persist_uncaught(r) ==
    /\ req[r].pc = "persist"
    /\ \/ /\ StoreMayWork
          /\ history' = Append(history,
                          [field |-> req[r].field, scope_key |-> req[r].scope_key,
                           user_id |-> req[r].user_id, suggestion |-> req[r].unique])
          /\ req' = [req EXCEPT ![r].pc = "done", ![r].outcome = "ok"]
       \/ /\ StoreMayFail
          /\ history' = history
          /\ req' = [req EXCEPT ![r] =
                       AfterRejection([@ EXCEPT !.pc = "attempt", !.attempt = @ - 1],
                                      "ServerSelectionTimeoutError", FALSE)]
    /\ UNCHANGED <<env, counters, RECENT_SUGGESTIONS, budget>>
    /\ UNCHANGED outsideEngine

\* the record insert_one adds for the accepted suggestion of request r
RecordOf(r) ==
    [field |-> req[r].field, scope_key |-> req[r].scope_key,
     user_id |-> req[r].user_id, suggestion |-> req[r].unique]

\* the history when the newest record of each (field, scope_key) is all that
\* is kept: the record replaces the one the scope has
Replaced(hist, rec) ==
    Append(SelectSeq(hist, LAMBDA d : ~(d.field = rec.field /\ d.scope_key = rec.scope_key)),
           rec)

\* _persist_scope_suggestion with replace_one(..., upsert=True) on
\* (field, scope_key) in place of insert_one
Persist_replace(r) ==
    /\ req[r].pc = "persist"
    /\ \/ /\ StoreMayWork
          /\ history' = Replaced(history, RecordOf(r))
       \/ /\ StoreMayFail
          /\ history' = history
    /\ req' = [req EXCEPT ![r].pc = "done", ![r].outcome = "ok"]
    /\ UNCHANGED <<env, counters, RECENT_SUGGESTIONS, budget>>
    /\ UNCHANGED outsideEngine

\* _persist_scope_suggestion: insert_one succeeds, or raises and is logged
\* (776-786); then the suggestion is returned (2001, 1737)
Persist(r) ==
    /\ req[r].pc = "persist"
    /\ \/ /\ StoreMayWork
          /\ history' = Append(history,
                          [field |-> req[r].field, scope_key |-> req[r].scope_key,
                           user_id |-> req[r].user_id, suggestion |-> req[r].unique])
       \/ /\ StoreMayFail
          /\ history' = history
    /\ req' = [req EXCEPT ![r].pc = "done", ![r].outcome = "ok"]
    /\ UNCHANGED <<env, counters, RECENT_SUGGESTIONS, budget>>
    /\ UNCHANGED outsideEngine

\* the response has been sent; the slot is free for the next request
Respond(r) ==
    /\ req[r].pc = "done"
    /\ req' = [req EXCEPT ![r] = IdleReq]
    /\ UNCHANGED <<env, history, counters, RECENT_SUGGESTIONS, budget>>
    /\ UNCHANGED outsideEngine

\* the second slot is taken only while the first one is busy
SlotFree(r) == r = "r1" \/ req["r1"].pc # "idle"

\* POST /suggest (2222-2230) in a deployment of EngineEnvs
StartEngine(r) == SlotFree(r) /\ Start(r, EngineInputs)

\* POST /suggest (2222-2230) in any deployment, one request at a time
StartLoop == Start("r1", LoopInputs)

Next ==
    \E r \in Reqs :
        \/ StartEngine(r)
        \/ LoadRecent(r)
        \/ NextScopeTurn(r)
        \/ AttemptRaises(r)
        \/ AttemptReturns(r)
        \/ Persist(r)
        \/ Respond(r)

\* concurrent requests of two processes, in the deployments EngineEnvs
Spec == Init /\ [][Next]_vars

NextLoop ==
    \/ StartLoop
    \/ LoadRecent("r1")
    \/ NextScopeTurn("r1")
    \/ AttemptRaises("r1")
    \/ AttemptReturns("r1")
    \/ Persist("r1")
    \/ Respond("r1")

\* requests one at a time, in every deployment of Envs
SpecLoop == InitLoop /\ [][NextLoop]_vars

TypeOK ==
    /\ budget \in 0..(MaxRequests + LoopRequests)
    /\ \A r \in Reqs : req[r].pc \in {"idle", "find", "turn", "attempt", "persist", "done"}

----------------------------------------------------------------------------
(* Properties                                                              *)

Done(r) == req[r].pc = "done"
Returned(r) == Done(r) /\ req[r].outcome = "ok"
Failed502(r) == Done(r) /\ req[r].outcome = "HTTP502"

\* C1: the persisted suggestion history never holds two records with the
\* same field and scope_key whose suggestion texts are equal after
\* normalization.
C1_HistoryUnique ==
    \A i, j \in 1..Len(history) :
        (/\ i < j
         /\ history[i].field = history[j].field
         /\ history[i].scope_key = history[j].scope_key)
        => _normalize_suggestion_text(history[i].suggestion)
             # _normalize_suggestion_text(history[j].suggestion)

\* C2: for a request whose current_value is non-empty, the returned text
\* never equals current_value after normalization.
C2_NeverCurrentValue ==
    \A r \in Reqs :
        (Returned(r) /\ _normalize_suggestion_text(req[r].current_value) # <<>>)
        => _normalize_suggestion_text(req[r].unique)
             # _normalize_suggestion_text(req[r].current_value)

\* C3: the text returned and persisted passes the validator of its field when
\* the validator is run on it again; for artist_inspiration and lyrics that is
\* the narrative/poetry-marker rule, which is all that
\* validate_music_specific_suggestion applies to them.
C3_ReturnedTextValid ==
    \A r \in Reqs :
        Returned(r)
        => validate_music_specific_suggestion(req[r].field, req[r].unique) # <<>>

\* C4: two requests with the same scope key that ran concurrently never both
\* return (or persist) the same normalized suggestion.
C4_ConcurrentDistinct ==
    \A r1, r2 \in Reqs :
        (/\ r1 # r2
         /\ req[r1].pc \in {"persist", "done"} /\ req[r1].unique # <<>>
         /\ req[r2].pc \in {"persist", "done"} /\ req[r2].unique # <<>>
         /\ req[r1].overlapped /\ req[r2].overlapped
         /\ req[r1].field = req[r2].field
         /\ req[r1].scope_key = req[r2].scope_key)
        => _normalize_suggestion_text(req[r1].unique)
             # _normalize_suggestion_text(req[r2].unique)

\* C5: a request signals the 'suggestion unavailable' failure (HTTP 502) only
\* after _fallback_suggestion has been invoked for it.
C5_FallbackBeforeFailure ==
    \A r \in Reqs : Failed502(r) => req[r].fallback_calls > 0

\* C6: with neither Gemini nor OpenAI credentials, a request (with a
\* well-formed context) makes no generator call and returns a suggestion
\* instead of failing.
C6_NoBackendStillReturns ==
    \A r \in Reqs :
        (Done(r) /\ ~env.gemini /\ ~env.openai /\ req[r].outcome # "TypeError")
        => (~req[r].called /\ req[r].outcome = "ok")

\* C7: once a provider call of a request has failed with an authentication,
\* quota or hard-rate-limit error, the loop of that request makes no further
\* attempt (it is never again at the top of an iteration); and a loop that
\* gave up on any other error had no attempt left.
C7_NonRetryableAborts ==
    \A r \in Reqs :
        /\ req[r].nonretry => req[r].pc # "attempt"
        /\ (Failed502(r) /\ ~HasAbortMarker(req[r].last_error))
           => req[r].attempt >= LoopBound(SUGGEST_MAX_ATTEMPTS(env.attempts_env))

\* C8: the number of generation attempts of a request never exceeds
\* SUGGEST_MAX_ATTEMPTS, for every configured value including 1.
C8_AttemptsWithinConfigured ==
    \A r \in Reqs : req[r].attempt <= SUGGEST_MAX_ATTEMPTS(env.attempts_env)

\* C9: whatever the store operations do (find, counter update and read,
\* insert: each may raise), a request whose generator yielded a candidate
\* that passed validation and the uniqueness check returns that candidate;
\* a request fails only when no candidate was accepted, and never with an
\* error of the store.
C9_StoreFailuresAbsorbed ==
    \A r \in Reqs :
        /\ req[r].unique # <<>> => req[r].pc \in {"persist", "done"}
        /\ (Done(r) /\ req[r].unique # <<>>) => req[r].outcome = "ok"
        /\ (Done(r) /\ req[r].outcome # "ok") => req[r].unique = <<>>

\* a request returned its candidate although every store operation raised
C9_Witness ==
    \E r \in Reqs :
        /\ env.store = "down"
        /\ Returned(r)
        /\ req[r].unique \in { _strip_machine_suffixes(req[r].field, t) :
                                 t \in GeneratorTexts(req[r].field) }

\* C10: every failing request fails with HTTP 502 whose detail names the
\* field and carries at most 240 characters of the last diagnostic.
C10_OnlyTypedFailure ==
    \A r \in Reqs :
        (Done(r) /\ req[r].outcome # "ok")
        => (/\ req[r].outcome = "HTTP502"
            /\ req[r].last_error # ""
            /\ req[r].diag_len <= UpstreamLimit
            /\ req[r].diag_len <= MsgLen(req[r].last_error))

----------------------------------------------------------------------------
(* Catalog asset selection (server.py 208-258, 451-545)                    *)

\* an asset of the catalog; the url is the file name of the soundhelix url
Asset(u, t, d) == [url |-> u, title |-> t, duration |-> d]

AUDIO_LIBRARY ==
    [ electronic |-> << Asset("Song-1", <<"electronic", "pulse">>, 30),
                        Asset("Song-2", <<"digital", "wave">>, 28),
                        Asset("Song-3", <<"synth", "dreams">>, 25),
                        Asset("Song-4", <<"cyber", "flow">>, 27) >>,
      ambient    |-> << Asset("Song-5", <<"peaceful", "ambient">>, 30),
                        Asset("Song-6", <<"ethereal", "space">>, 26),
                        Asset("Song-7", <<"calm", "waters">>, 24) >>,
      rock       |-> << Asset("Song-8", <<"rock", "energy">>, 28),
                        Asset("Song-9", <<"guitar", "riff">>, 25),
                        Asset("Song-10", <<"power", "chords">>, 30) >>,
      hip_hop    |-> << Asset("Song-11", <<"urban", "beat">>, 26),
                        Asset("Song-12", <<"street", "flow">>, 28),
                        Asset("Song-13", <<"boom", "bap">>, 24) >>,
      cinematic  |-> << Asset("Song-14", <<"epic", "journey">>, 30),
                        Asset("Song-15", <<"dramatic", "score">>, 28),
                        Asset("Song-16", <<"orchestral", "rise">>, 25) >>,
      jazz       |-> << Asset("Song-1", <<"smooth", "jazz">>, 28),
                        Asset("Song-2", <<"jazz", "cafe">>, 26) >>,
      pop        |-> << Asset("Song-3", <<"pop", "vibes">>, 25),
                        Asset("Song-4", <<"feel", "good">>, 28),
                        Asset("Song-5", <<"summer", "hit">>, 24) >>,
      lofi       |-> << Asset("Song-6", <<"lofi", "study">>, 30),
                        Asset("Song-7", <<"chill", "beats">>, 26),
                        Asset("Song-8", <<"rainy", "day">>, 28) >>,
      classical  |-> << Asset("Song-9", <<"piano", "sonata">>, 30),
                        Asset("Song-10", <<"strings", "ensemble">>, 28) >>,
      default    |-> << Asset("Song-11", <<"inspiring">>, 28),
                        Asset("Song-12", <<"uplifting">>, 25),
                        Asset("Song-13", <<"creative", "flow">>, 30) >> ]

\* genre_mapping of get_genre_category, in the order of the dict
genre_mapping ==
    << [category |-> "electronic",
        genres |-> {"Electronic", "House", "Techno", "Trance", "Dubstep", "EDM",
                    "Synthwave", "Future Bass", "Deep House"}],
       [category |-> "ambient",
        genres |-> {"Ambient", "Drone", "Dark Ambient", "Chillwave", "IDM", "Minimalist"}],
       [category |-> "rock",
        genres |-> {"Rock", "Metal", "Indie", "Post-Rock", "Shoegaze", "Post-Punk"}],
       [category |-> "hip_hop",
        genres |-> {"Hip-Hop", "Trap", "Drill", "Cloud Rap", "R&B"}],
       [category |-> "cinematic",
        genres |-> {"Cinematic", "Orchestral", "Epic", "Film Score", "Classical",
                    "Neo-Classical"}],
       [category |-> "jazz", genres |-> {"Jazz", "Soul", "Funk", "Blues"}],
       [category |-> "pop",
        genres |-> {"Pop", "K-Pop", "J-Pop", "Disco", "Bedroom Pop"}],
       [category |-> "lofi", genres |-> {"Lo-fi", "Chillwave", "Vaporwave"}],
       [category |-> "classical", genres |-> {"Classical", "Orchestral", "Piano"}] >>

RECURSIVE FirstCategory(_, _)
FirstCategory(i, genres) ==
    IF i > Len(genre_mapping) THEN "default"
    ELSE IF \E k \in 1..Len(genres) : genres[k] \in genre_mapping[i].genres
         THEN genre_mapping[i].category
         ELSE FirstCategory(i + 1, genres)

\* a lookup that takes the requested genres in turn and returns the category
\* of the first one that is a member of any
get_genre_category_genreFirst(genres) ==
    LET member == {k \in 1..Len(genres) :
                     \E i \in 1..Len(genre_mapping) : genres[k] \in genre_mapping[i].genres}
    IN  IF member = {} THEN "default"
        ELSE LET k == CHOOSE x \in member : \A y \in member : x <= y
                 i == CHOOSE x \in 1..Len(genre_mapping) :
                        /\ genres[k] \in genre_mapping[x].genres
                        /\ \A y \in 1..(x - 1) : genres[k] \notin genre_mapping[y].genres
             IN  genre_mapping[i].category

get_genre_category(genres) == FirstCategory(1, genres)

_normalize_duration_seconds(value, default) ==
    LET parsed == IF value = None THEN default ELSE value[1]
        capped == IF parsed < MaxSeconds THEN parsed ELSE MaxSeconds
    IN  IF capped > MinSeconds THEN capped ELSE MinSeconds

mood_groups ==
    [ dark      |-> {"dark", "night", "midnight", "shadow", "moody"},
      energy    |-> {"energy", "power", "drive", "pulse", "rush", "drop"},
      calm      |-> {"calm", "ambient", "chill", "lofi", "peaceful", "soft"},
      cinematic |-> {"cinematic", "epic", "orchestral", "score", "drama"},
      urban     |-> {"street", "urban", "beat", "bass", "flow"},
      uplift    |-> {"uplift", "inspire", "summer", "feel", "dream"} ]

\* `token in text` for a text of lower-case words: the mood tokens that
\* occur inside a word
TokensIn(word) ==
    CASE word = "beats" -> {"beat"}
      [] word = "dramatic" -> {"drama"}
      [] word = "dreams" -> {"dream"}
      [] word = "uplifting" -> {"uplift"}
      [] word = "chillwave" -> {"chill"}
      [] OTHER -> {word}

TextHas(text, tokens) ==
    \E i \in 1..Len(text) : TokensIn(text[i]) \cap tokens # {}

\* str.lower() of a genre name
LowerGenre(genre) ==
    CASE genre = "Techno" -> "techno"
      [] genre = "Jazz" -> "jazz"
      [] genre = "Pop" -> "pop"
      [] genre = "Chillwave" -> "chillwave"
      [] genre = "Folk" -> "folk"
      [] genre = "Piano" -> "piano"
      [] genre = "Epic" -> "epic"
      [] OTHER -> genre

_context_keyword_hits(song_payload, track_title) ==
    LET prompt_text == song_payload.music_prompt
                         \o [i \in 1..Len(song_payload.genres) |->
                               LowerGenre(song_payload.genres[i])]
    IN  Cardinality({g \in DOMAIN mood_groups :
                        /\ TextHas(prompt_text, mood_groups[g])
                        /\ TextHas(track_title, mood_groups[g])})

\* the tie_breaker of a candidate is int(sha256(...)[:8], 16) / 16^8; the
\* hashed text holds generate_uniqueness_seed() (time, random, uuid4), so the
\* value is any of the levels k / TieScale, 0 <= k < TieScale, afresh for
\* every call and every candidate
TieScale == 2
TieLevels == 0..(TieScale - 1)

\* the assets of the category not in used_urls, or all of them when none is
\* left (519)
Pool_allTracks(category, used_urls) == AUDIO_LIBRARY[category]

Pool_unusedOnly(category, used_urls) ==
    SelectSeq(AUDIO_LIBRARY[category], LAMBDA t : t.url \notin used_urls)

Pool(category, used_urls) ==
    LET unused == SelectSeq(AUDIO_LIBRARY[category], LAMBDA t : t.url \notin used_urls)
    IN  IF unused # <<>> THEN unused ELSE AUDIO_LIBRARY[category]

Max2(a, b) == IF a > b THEN a ELSE b
Abs(a) == IF a < 0 THEN 0 - a ELSE a

\* max(track_duration, requested_duration, 1)
ScoreDen(track, requested_duration) ==
    Max2(Max2(track.duration, requested_duration), 1)

\* (duration_score * 2.0) + context_hits, times ScoreDen
BaseScoreNum(track, song_payload, requested_duration) ==
    LET den == ScoreDen(track, requested_duration)
        duration_delta == Abs(track.duration - requested_duration)
        closeness == Max2(0, den - duration_delta)
    IN  2 * closeness + _context_keyword_hits(song_payload, track.title) * den

\* track a has a strictly greater duration-and-keyword score than track b
BaseGreater(a, b, song_payload, requested_duration) ==
    BaseScoreNum(a, song_payload, requested_duration) * ScoreDen(b, requested_duration)
      > BaseScoreNum(b, song_payload, requested_duration) * ScoreDen(a, requested_duration)

\* score, times ScoreDen * TieScale
ScoreNum(track, song_payload, requested_duration, tie) ==
    BaseScoreNum(track, song_payload, requested_duration) * TieScale
      + tie[track.url] * ScoreDen(track, requested_duration)

ScoreGreater(a, b, song_payload, requested_duration, tie) ==
    ScoreNum(a, song_payload, requested_duration, tie) * ScoreDen(b, requested_duration)
      > ScoreNum(b, song_payload, requested_duration, tie) * ScoreDen(a, requested_duration)

\* what scored_tracks[0] raises on an empty list
IndexError == Asset("IndexError", <<>>, 0)

\* scored_tracks.sort(reverse=True) is stable: the first of the pool among
\* those of the greatest score comes first
select_audio_for_genres(genres, used_urls, song_payload, tie) ==
    LET category == get_genre_category(genres)
        requested_duration ==
            _normalize_duration_seconds(song_payload.duration_seconds, 30)
        pool == Pool(category, used_urls)
        best == CHOOSE i \in 1..Len(pool) :
                  /\ \A j \in 1..Len(pool) :
                       ~ScoreGreater(pool[j], pool[i], song_payload,
                                     requested_duration, tie)
                  /\ \A j \in 1..(i - 1) :
                       ScoreGreater(pool[i], pool[j], song_payload,
                                    requested_duration, tie)
    IN  IF pool = <<>> THEN IndexError ELSE pool[best]

CategoryUrls(category) ==
    {AUDIO_LIBRARY[category][i].url : i \in 1..Len(AUDIO_LIBRARY[category])}

AllUrls == UNION {CategoryUrls(c) : c \in DOMAIN AUDIO_LIBRARY}

\* genre lists of a song
GenreLists ==
    { <<>>, <<"Techno">>, <<"Jazz">>, <<"Pop", "Techno">>, <<"Chillwave">>,
      <<"Folk">>, <<"Piano">> }

\* music_prompt of a song, as lower-case words
MusicPrompts == { <<>>, <<"dark", "energy", "drive">>, <<"summer", "dreams">> }

\* duration_seconds of a song
DurationHints == {None, <<5>>, <<25>>, <<28>>}

SongPayloads ==
    [genres : GenreLists, music_prompt : MusicPrompts, duration_seconds : DurationHints]

\* the tie-breaker values of one call, one for each candidate
TieChoices(category) == [CategoryUrls(category) -> TieLevels]

----------------------------------------------------------------------------
(* Calls of select_audio_for_genres                                        *)

\* number of select_audio_for_genres calls in one behaviour of SpecSelect
MaxCalls == 2

\* number of tracks of an album in SpecAlbum
MaxTracks == 3

\* the suggestion engine at rest
EngineIdle ==
    /\ env = [gemini |-> FALSE, openai |-> FALSE, provider |-> "gemini",
              attempts_env |-> 3, store |-> "absent"]
    /\ history = <<>>
    /\ counters = <<>>
    /\ RECENT_SUGGESTIONS = [p \in Procs |-> [f \in Fields |-> <<>>]]
    /\ req = [r \in Reqs |-> IdleReq]
    /\ budget = 0

\* one entry of calls: the arguments of the call and the asset it returned
CallRecord(song_payload, used_urls, asset, source) ==
    [song_payload |-> song_payload, used |-> used_urls, asset |-> asset,
     source |-> source]

\* a song payload and a used set are drawn; the used set is any set of
\* urls of the song's category
InitSelect ==
    /\ EngineIdle
    /\ probe = <<>>
    /\ sel_input \in SongPayloads
    /\ used_audio_urls \in SUBSET CategoryUrls(get_genre_category(sel_input.genres))
    /\ calls = <<>>

\* select_audio_for_genres(genres, used_urls, song_payload) is called
SelectAudio ==
    /\ Len(calls) < MaxCalls
    /\ \E tie \in TieChoices(get_genre_category(sel_input.genres)) :
         calls' = Append(calls,
                    CallRecord(sel_input, used_audio_urls,
                               select_audio_for_genres(sel_input.genres, used_audio_urls,
                                                       sel_input, tie),
                               "catalog"))
    /\ UNCHANGED <<used_audio_urls, sel_input, probe>>
    /\ UNCHANGED <<env, history, counters, RECENT_SUGGESTIONS, req, budget>>

\* the caller adds the url of the asset it was given to its used set
\* (used_audio_urls.add(selected["url"]), 823 and 902)
MarkUsed ==
    /\ calls # <<>>
    /\ calls[Len(calls)].asset.url \notin used_audio_urls
    /\ used_audio_urls' = used_audio_urls \cup {calls[Len(calls)].asset.url}
    /\ UNCHANGED <<calls, sel_input, probe>>
    /\ UNCHANGED <<env, history, counters, RECENT_SUGGESTIONS, req, budget>>

NextSelect == SelectAudio \/ MarkUsed

\* select_audio_for_genres called on drawn arguments, again on the same
\* arguments, and again after the caller has recorded the result
SpecSelect == InitSelect /\ [][NextSelect]_vars

----------------------------------------------------------------------------
(* create_album (server.py 2419-2480) and generate_track_audio (810-905)   *)

\* FREE_TIER_MODE; or MusicGen with the curated library as fallback; or
\* MusicGen with STRICT_REAL_MEDIA_OUTPUT
MediaModes == {"free_tier", "fallback", "strict"}

AlbumInputs == [num_tracks : 1..MaxTracks, mode : MediaModes, failed : {FALSE}]

\* what _load_recent_user_audio_urls returns: the urls of the user's recent
\* songs
RecentUrlSets == { {}, {"Song-1"}, {"Song-1", "Song-2"}, CategoryUrls("default") }

\* the payloads of album tracks: desired_duration 25, the album prompt
TrackPayloads ==
    { p \in SongPayloads : /\ p.genres \in { <<"Techno">>, <<"Jazz">>, <<"Folk">> }
                           /\ p.music_prompt = <<>>
                           /\ p.duration_seconds = <<25>> }

\* audio returned by the MusicGen endpoint: not an asset of the catalog
ProviderAudio == Asset("data:audio", <<>>, 25)

InitAlbum ==
    /\ EngineIdle
    /\ probe = <<>>
    /\ sel_input \in AlbumInputs
    /\ used_audio_urls \in RecentUrlSets
    /\ calls = <<>>

TracksLeft == ~sel_input.failed /\ Len(calls) < sel_input.num_tracks

\* generate_track_audio served from the curated library (821-826, 901-905):
\* the asset is selected and its url goes into the used set of the album
TrackFromCatalog_notRecorded ==
    /\ TracksLeft
    /\ sel_input.mode \in {"free_tier", "fallback"}
    /\ \E song_payload \in TrackPayloads :
         \E tie \in TieChoices(get_genre_category(song_payload.genres)) :
           LET selected == select_audio_for_genres(song_payload.genres, used_audio_urls,
                                                   song_payload, tie)
           IN  /\ calls' = Append(calls, CallRecord(song_payload, used_audio_urls,
                                                    selected, "catalog"))
               /\ used_audio_urls' = used_audio_urls
    /\ UNCHANGED <<sel_input, probe>>
    /\ UNCHANGED <<env, history, counters, RECENT_SUGGESTIONS, req, budget>>

TrackFromCatalog ==
    /\ TracksLeft
    /\ sel_input.mode \in {"free_tier", "fallback"}
    /\ \E song_payload \in TrackPayloads :
         \E tie \in TieChoices(get_genre_category(song_payload.genres)) :
           LET selected == select_audio_for_genres(song_payload.genres, used_audio_urls,
                                                   song_payload, tie)
           IN  /\ calls' = Append(calls, CallRecord(song_payload, used_audio_urls,
                                                    selected, "catalog"))
               /\ used_audio_urls' = used_audio_urls \cup {selected.url}
    /\ UNCHANGED <<sel_input, probe>>
    /\ UNCHANGED <<env, history, counters, RECENT_SUGGESTIONS, req, budget>>

\* generate_track_audio served by the MusicGen endpoint (828-886): nothing
\* is selected from the catalog
TrackFromProvider ==
    /\ TracksLeft
    /\ sel_input.mode \in {"fallback", "strict"}
    /\ \E song_payload \in TrackPayloads :
         calls' = Append(calls, CallRecord(song_payload, used_audio_urls,
                                           ProviderAudio, "provider"))
    /\ UNCHANGED <<used_audio_urls, sel_input, probe>>
    /\ UNCHANGED <<env, history, counters, RECENT_SUGGESTIONS, req, budget>>

\* the MusicGen endpoint fails under STRICT_REAL_MEDIA_OUTPUT: HTTP 502
\* (894-899), and create_album ends
TrackFails ==
    /\ TracksLeft
    /\ sel_input.mode = "strict"
    /\ sel_input' = [sel_input EXCEPT !.failed = TRUE]
    /\ UNCHANGED <<used_audio_urls, calls, probe>>
    /\ UNCHANGED <<env, history, counters, RECENT_SUGGESTIONS, req, budget>>

NextAlbum == TrackFromCatalog \/ TrackFromProvider \/ TrackFails

\* one album creation, track after track
SpecAlbum == InitAlbum /\ [][NextAlbum]_vars

----------------------------------------------------------------------------
(* Properties of the asset selection                                       *)

\* the category of the call, and the catalog calls of the log
CallCategory(c) == get_genre_category(c.song_payload.genres)
CatalogCalls == {i \in 1..Len(calls) : calls[i].source = "catalog"}

\* the urls of the category the call could still have been given
Unused(c) == CategoryUrls(CallCategory(c)) \ c.used

\* requested_duration of the call
Requested(c) == _normalize_duration_seconds(c.song_payload.duration_seconds, 30)

\* C11: for every genre list, duration hint, context and used set (a used
\* set that covers the whole category included) the selection returns one
\* asset of the mapped category; it never fails on an empty pool.
C11_OneAssetOfCategory ==
    \A i \in CatalogCalls :
        /\ calls[i].asset # IndexError
        /\ \E k \in 1..Len(AUDIO_LIBRARY[CallCategory(calls[i])]) :
             calls[i].asset = AUDIO_LIBRARY[CallCategory(calls[i])][k]

\* a call whose used set covers every url of the category returned an asset
\* of the category
C11_Witness ==
    \E i \in CatalogCalls :
        /\ Unused(calls[i]) = {}
        /\ calls[i].song_payload.duration_seconds = <<5>>
        /\ calls[i].asset.url \in CategoryUrls(CallCategory(calls[i]))

\* the url returned is not in used_urls when the category has an asset that
\* is not in used_urls
UnusedPreferred ==
    \A i \in CatalogCalls :
        Unused(calls[i]) # {} => calls[i].asset.url \notin calls[i].used

\* call i + 1 is call i with the url of its result added to used_urls
SecondCall(i) ==
    /\ i \in CatalogCalls
    /\ (i + 1) \in CatalogCalls
    /\ calls[i + 1].song_payload = calls[i].song_payload
    /\ calls[i + 1].used = calls[i].used \cup {calls[i].asset.url}

\* C12 (as stated): the url returned is not in used_urls when the category
\* has an asset outside used_urls; and a second call with the first result's
\* url added to used_urls returns a different asset when the category has
\* more than one asset.
C12_SecondCallDiffers ==
    /\ UnusedPreferred
    /\ \A i \in 1..Len(calls) :
         (SecondCall(i) /\ Len(AUDIO_LIBRARY[CallCategory(calls[i])]) > 1)
         => calls[i + 1].asset # calls[i].asset

\* C12 (amended): the url returned is not in used_urls when the category has
\* an asset outside used_urls; and a second call with the first result's url
\* added to used_urls returns a different asset when the category has an
\* asset outside the enlarged used_urls.
C12_UnusedPreferred ==
    /\ UnusedPreferred
    /\ \A i \in 1..Len(calls) :
         (SecondCall(i) /\ Unused(calls[i + 1]) # {})
         => calls[i + 1].asset # calls[i].asset

\* a second call after the first result was recorded, in a category that had
\* two unused assets left
C12_Witness ==
    \E i \in 1..Len(calls) :
        /\ SecondCall(i)
        /\ calls[i].used # {}
        /\ calls[i].asset.url \notin calls[i].used
        /\ Unused(calls[i + 1]) # {}
        /\ calls[i + 1].asset.url \notin calls[i + 1].used

\* C13: the selection is deterministic: two calls with the same genres,
\* context and used_urls return the same asset.
C13_Deterministic ==
    \A i, j \in CatalogCalls :
        (/\ calls[i].song_payload = calls[j].song_payload
         /\ calls[i].used = calls[j].used)
        => calls[i].asset = calls[j].asset

\* C14: the tie-break decides exact ties only: no candidate of the pool has
\* a strictly greater sum 2 * duration closeness + keyword hits than the
\* asset returned.
C14_TieBreakOnlyTies ==
    \A i \in CatalogCalls :
        LET pool == Pool(CallCategory(calls[i]), calls[i].used)
        IN  \A k \in 1..Len(pool) :
              ~BaseGreater(pool[k], calls[i].asset, calls[i].song_payload,
                           Requested(calls[i]))

\* C15: in one album creation every asset chosen from the curated library is
\* in the used set of every later selection, and a later catalog track never
\* gets the url of an earlier one as long as its category still has an asset
\* outside the used set.
C15_AlbumTracksDistinct ==
    \A i, j \in CatalogCalls :
        i < j => /\ calls[i].asset.url \in calls[j].used
                 /\ Unused(calls[j]) # {}
                      => calls[j].asset.url # calls[i].asset.url

\* an album whose second catalog track is of a category that shares the url
\* of the first track's asset, and still got another url
C15_Witness ==
    \E i, j \in CatalogCalls :
        /\ i < j
        /\ CallCategory(calls[i]) # CallCategory(calls[j])
        /\ calls[i].asset.url \in CategoryUrls(CallCategory(calls[j]))
        /\ calls[j].asset.url # calls[i].asset.url

----------------------------------------------------------------------------
(* Calls of the validators and of the duration functions                   *)

\* length of the enumerated duration texts
MaxTextLen == 3

DurationAlphabet == {"0", "1", "5", ":", "h", "m", "s", " ", "x"}

\* texts handed to validate_duration_suggestion: every text of up to
\* MaxTextLen characters of the alphabet, and some longer ones
DurationTexts ==
    UNION { [1..k -> DurationAlphabet] : k \in 0..MaxTextLen }
    \cup { <<"1", ":", "0", "5">>,
           <<"1", ":", "0", "5", ":", "0", "0">>,
           <<"1", ":", "2", ":", "3", ":", "4">>,
           <<"-", "1", ":", "3", "0">>,
           <<"7", "2", "0", "0", "1">>,
           <<"2", "M", "1", "0", "S">>,
           <<"2", "m", "\n", "5", "s">>,
           <<"1", ".", "5", "m">>,
           <<"5", " ", "s", "o", "n", "g", "s">>,
           <<"t", "o", "p", " ", "1", "0", " ", "h", "i", "t", "s">> }

\* width of the runs of seconds taken at both ends of the range
SecondsSpan == 130

\* seconds handed to _seconds_to_duration_text: the two ends of the range
\* of the round trip, minutes of one to four digits with remainders of one
\* and two digits, and values outside the range
SecondsInputs ==
    (MinSeconds..(MinSeconds + SecondsSpan))
    \cup ((MaxSeconds - SecondsSpan)..MaxSeconds)
    \cup {60 * m + r : m \in {1, 9, 10, 61, 99, 100, 999, 1000},
                       r \in {0, 1, 9, 10, 59}}
    \cup {0, 9, MaxSeconds + 1}

\* one call: the operation and its arguments (those the operation does not
\* take are empty)
Call(op, field, text, n) == [op |-> op, field |-> field, text |-> text, n |-> n]

DurationCalls ==
    {Call("seconds", "duration", <<>>, n) : n \in SecondsInputs}
    \cup {Call("duration", "duration", t, 0) : t \in DurationTexts}

\* the text the next validator call is applied to: the input, or the output
\* of the call before
Current == IF probe = <<>> THEN sel_input.text ELSE probe[Len(probe)]

InitDuration ==
    /\ EngineIdle
    /\ used_audio_urls = {}
    /\ calls = <<>>
    /\ probe = <<>>
    /\ sel_input \in DurationCalls

\* _seconds_to_duration_text(n)
RenderDuration ==
    /\ sel_input.op = "seconds"
    /\ probe = <<>>
    /\ probe' = <<_seconds_to_duration_text(sel_input.n)>>
    /\ UNCHANGED <<used_audio_urls, calls, sel_input>>
    /\ UNCHANGED <<env, history, counters, RECENT_SUGGESTIONS, req, budget>>

\* _duration_text_to_seconds of the rendered text
ParseDuration ==
    /\ sel_input.op = "seconds"
    /\ Len(probe) = 1
    /\ probe' = Append(probe, _duration_text_to_seconds(probe[1]))
    /\ UNCHANGED <<used_audio_urls, calls, sel_input>>
    /\ UNCHANGED <<env, history, counters, RECENT_SUGGESTIONS, req, budget>>

\* validate_duration_suggestion of the input, and then of its own output
ValidateDuration ==
    /\ sel_input.op = "duration"
    /\ Len(probe) < 2
    /\ probe' = Append(probe, validate_duration_suggestion(Current))
    /\ UNCHANGED <<used_audio_urls, calls, sel_input>>
    /\ UNCHANGED <<env, history, counters, RECENT_SUGGESTIONS, req, budget>>

NextDuration == RenderDuration \/ ParseDuration \/ ValidateDuration

SpecDuration == InitDuration /\ [][NextDuration]_vars

----------------------------------------------------------------------------
(* Properties of the duration functions                                    *)

\* C16: for every integer n with 10 <= n <= 72000,
\* _duration_text_to_seconds(_seconds_to_duration_text(n)) equals n.
C16_DurationRoundTrip ==
    (/\ sel_input.op = "seconds"
     /\ Len(probe) = 2
     /\ sel_input.n \in MinSeconds..MaxSeconds)
    => probe[2] = <<sel_input.n>>

\* 71999 seconds were rendered as "1199m59s" and parsed back
C16_Witness ==
    /\ sel_input.op = "seconds"
    /\ sel_input.n = 71999
    /\ Len(probe) = 2
    /\ probe[1] = <<"1", "1", "9", "9", "m", "5", "9", "s">>
    /\ probe[2] = <<71999>>

\* The forms of a duration text, read on the first line of the text without
\* the blanks around it and in lower case.

\* bare seconds: "90"
BareForm(t) == isdigit(t)

\* MM:SS and H:MM:SS: two or three numbers with ":" between them
ClockForm(t) ==
    LET parts == split(t, ":")
    IN  Len(parts) \in {2, 3} /\ \A i \in 1..Len(parts) : isdigit(parts[i])

\* the text without its blanks
Squeeze(t) == SelectSeq(t, LAMBDA c : c \notin Blanks)

\* the letters of a text, in their order
Letters(t) == SelectSeq(t, LAMBDA c : c \notin Digits)

\* h/m/s components: numbers that are each followed by their unit letter,
\* hours before minutes before seconds; blanks may stand beside a unit
\* letter, not inside a number
UnitForm(t) ==
    LET u == Squeeze(t)
    IN  /\ Letters(u) \in { <<"h">>, <<"m">>, <<"s">>, <<"h", "m">>, <<"h", "s">>,
                            <<"m", "s">>, <<"h", "m", "s">> }
        /\ u[1] \in Digits
        /\ u[Len(u)] \notin Digits
        /\ \A i \in 2..Len(u) : u[i] \notin Digits => u[i - 1] \in Digits
        /\ \A i \in 1..Len(t) : \A j \in (i + 2)..Len(t) :
             (t[i] \in Digits /\ t[j] \in Digits)
             => \E k \in (i + 1)..(j - 1) : t[k] \notin Blanks

\* the number in front of the unit letter, 0 when the unit does not occur
Component(u, unit) ==
    IF \A i \in 1..Len(u) : u[i] # unit THEN 0
    ELSE LET i == CHOOSE k \in 1..Len(u) : u[k] = unit
             start == CHOOSE k \in 1..(i - 1) :
                        /\ \A j \in k..(i - 1) : u[j] \in Digits
                        /\ (k = 1 \/ u[k - 1] \notin Digits)
         IN  DigitsValue(SubSeq(u, start, i - 1))

\* the seconds a text denotes: <<n>>, or None for a text in none of the forms
DenotedBy(t) ==
    IF BareForm(t) THEN <<DigitsValue(t)>>
    ELSE IF ClockForm(t) THEN ColonSeconds(t)
    ELSE IF UnitForm(t)
         THEN <<Component(Squeeze(t), "h") * 3600 + Component(Squeeze(t), "m") * 60
                  + Component(Squeeze(t), "s")>>
    ELSE None

Denotes(text) ==
    CHOOSE n \in { DenotedBy(t) :
                     t \in { strip(FirstLine(raw0)) :
                               raw0 \in {strip(LowerText(text))} } } : TRUE

\* C18: validate_duration_suggestion maps every input that denotes n seconds
\* (bare seconds, MM:SS, H:MM:SS, h/m/s components) to the canonical
\* rendering of min(max(n, 10), 72000), and every input in none of these
\* forms to the empty text.
C18_DurationForms ==
    (sel_input.op = "duration" /\ Len(probe) >= 1)
    => probe[1] = (IF Denotes(sel_input.text) = None THEN <<>>
                   ELSE _seconds_to_duration_text(Denotes(sel_input.text)[1]))

----------------------------------------------------------------------------
(* Calls of the validators                                                 *)

\* number of items of the enumerated list texts
MaxItems == 3

\* items of genre texts and of language texts
GenreItems ==
    { <<"t", "e", "c", "h", "n", "o">>,
      <<"H", "o", "u", "s", "e">>,
      <<"x", "y", "z">>,
      <<"\"", "x", "y", "z", " ", "\"">>,
      <<"1", ".", " ", "j", "a", "z", "z">>,
      <<"h", "i", "p", " ", "h", "o", "p">> }

LanguageItems ==
    { <<"e", "n", "g", "l", "i", "s", "h">>,
      <<"S", "p", "a", "n", "i", "s", "h">>,
      <<"i", "n", "s", "t", "r", "u", "m", "e", "n", "t">>,
      <<"x", "y", "z">>,
      <<"m", "a", "n", "d", "a", "r", "i", "n">> }

\* the texts made of up to MaxItems of the items, joined by ", "
ItemTexts(items) ==
    { JoinComma(seq) : seq \in UNION { [1..k -> items] : k \in 1..MaxItems } }

GenreTexts ==
    ItemTexts(GenreItems)
    \cup { <<>>,
           <<"t", "e", "c", "h", "n", "o", ",", " ", "h", "o", "u", "s", "e", ",", " ", "t", "e", "c", "h", "n", "o">>,
           <<"t", "e", "c", "h", "n", "o", ",", " ", "h", "o", "u", "s", "e", ",", " ", "r", "o", "c", "k", ",", " ", "j", "a", "z", "z", ",", " ", "p", "o", "p">>,
           <<"r", "o", "c", "k", ";", " ", "R", "o", "c", "k", " ", "/", " ", "R", "O", "C", "K">>,
           <<"d", "e", "e", "p", " ", "h", "o", "u", "s", "e", ",", " ", "h", "o", "u", "s", "e">>,
           <<"a", "f">> }

LanguageTexts ==
    ItemTexts(LanguageItems)
    \cup { <<>>,
           <<"e", "n", "g", "l", "i", "s", "h", ",", " ", "s", "p", "a", "n", "i", "s", "h", ",", " ", "f", "r", "e", "n", "c", "h", ",", " ", "a", "r", "a", "b", "i", "c">>,
           <<"I", "n", "s", "t", "r", "u", "m", "e", "n", "t", "a", "l", ",", " ", "e", "n", "g", "l", "i", "s", "h">>,
           <<"1", ")", " ", "f", "r", "e", "n", "c", "h", "\n", "2", ")", " ", "l", "a", "t", "a", "m", " ", "s", "p", "a", "n", "i", "s", "h">> }

ListCalls ==
    {Call("list", "genres", t, 0) : t \in GenreTexts}
    \cup {Call("list", "vocal_languages", t, 0) : t \in LanguageTexts}

\* texts handed to validate_music_specific_suggestion, as token sequences
MusicCalls ==
    UNION { {Call("music", f, t, 0) : t \in GeneratorTexts(f)} :
              f \in MusicSpecificFields }

ValidatorCalls ==
    ListCalls \cup MusicCalls \cup {Call("duration", "duration", t, 0) : t \in DurationTexts}

InitValidate ==
    /\ EngineIdle
    /\ used_audio_urls = {}
    /\ calls = <<>>
    /\ probe = <<>>
    /\ sel_input \in ValidatorCalls

\* validate_list_suggestion of the input, and then of its own output
ValidateList ==
    /\ sel_input.op = "list"
    /\ Len(probe) < 2
    /\ probe' = Append(probe, validate_list_suggestion(sel_input.field, Current))
    /\ UNCHANGED <<used_audio_urls, calls, sel_input>>
    /\ UNCHANGED <<env, history, counters, RECENT_SUGGESTIONS, req, budget>>

\* validate_music_specific_suggestion of the input, and then of its own
\* output
ValidateMusic ==
    /\ sel_input.op = "music"
    /\ Len(probe) < 2
    /\ probe' = Append(probe, validate_music_specific_suggestion(sel_input.field, Current))
    /\ UNCHANGED <<used_audio_urls, calls, sel_input>>
    /\ UNCHANGED <<env, history, counters, RECENT_SUGGESTIONS, req, budget>>

NextValidate == ValidateList \/ ValidateMusic \/ ValidateDuration

\* every validator applied to a drawn text and then to its own output
SpecValidate == InitValidate /\ [][NextValidate]_vars

----------------------------------------------------------------------------
(* Properties of the validators                                            *)

\* C17: for every field, the field's validator applied to its own non-empty
\* output returns that same output.
C17_ValidationIdempotent ==
    (Len(probe) = 2 /\ probe[1] # <<>>) => probe[2] = probe[1]

\* the entries of a validated list text
Entries(out) ==
    LET parts == RawParts(out)
    IN  [k \in 1..Len(parts) |-> strip(parts[k])]

\* what an item of the input stands for in the validated list: its match
\* in the knowledge base, or for genres without any match its title-cased
\* text
Resolved(field, items, i) ==
    IF field = "vocal_languages"
    THEN _best_match_from_choices(items[i], LANGUAGE_KNOWLEDGE_BASE)
    ELSE IF Canonical(items, get_all_genres) # <<>>
         THEN _best_match_from_choices(items[i], get_all_genres)
         ELSE title(strip(items[i]))

\* the items of the input that stand for the entry
ItemsOf(field, items, entry) ==
    {i \in 1..Len(items) : Resolved(field, items, i) = entry}

\* C19: the validated list of a genre or vocal-language suggestion has no
\* two equal entries, keeps the order of first occurrence of the input
\* items, and has at most 4 entries for genres and 3 for languages; a
\* vocal-language input containing 'instrumental' yields "Instrumental".
C19_ListDeduplicatedOrderedCapped ==
    (sel_input.op = "list" /\ Len(probe) >= 1)
    => LET entries == Entries(probe[1])
           items == _split_list_like_text(sel_input.text)
           First(e) == CHOOSE i \in ItemsOf(sel_input.field, items, e) :
                         \A j \in ItemsOf(sel_input.field, items, e) : i <= j
       IN  /\ \A i, j \in 1..Len(entries) : i # j => entries[i] # entries[j]
           /\ \A i \in 1..Len(entries) :
                ItemsOf(sel_input.field, items, entries[i]) # {}
           /\ \A i, j \in 1..Len(entries) :
                i < j => First(entries[i]) < First(entries[j])
           /\ Len(entries) <= (IF sel_input.field = "genres" THEN 4 ELSE 3)
           /\ (/\ sel_input.field = "vocal_languages"
               /\ Contains(lower(sel_input.text),
                           <<"i", "n", "s", "t", "r", "u", "m", "e", "n", "t", "a", "l">>))
              => probe[1] = <<"I", "n", "s", "t", "r", "u", "m", "e", "n", "t", "a", "l">>

----------------------------------------------------------------------------
(* Calls of _build_suggestion_scope_key (server.py 742-752)                *)

\* user_id of a request ("" stands for None)
ScopeUsers == {"", "global", "u1", "u1|title"}

\* AISuggestRequest.field is any string
ScopeFields == {"title", "lyrics", "x", "title|x"}

\* contexts with the same prompt that differ in title (outside
\* compact_context), in the genres, or in the type of the genres entry
ScopeContexts ==
    { GoodContext,
      [GoodContext EXCEPT !.title = "Neon Sky"],
      [GoodContext EXCEPT !.genres = [type |-> "list", val |-> <<"Techno">>]],
      [GoodContext EXCEPT !.genres = [type |-> "str", val |-> <<"Techno">>]],
      [GoodContext EXCEPT !.music_prompt = [type |-> "str", val |-> "lofi rain"]] }

ScopeRequests == [user_id : ScopeUsers, field : ScopeFields, context : ScopeContexts]

\* two requests
InitScope ==
    /\ EngineIdle
    /\ used_audio_urls = {}
    /\ calls = <<>>
    /\ probe = <<>>
    /\ sel_input \in [first : ScopeRequests, second : ScopeRequests]

\* the scope key of the first request, then of the second
BuildScopeKey ==
    /\ Len(probe) < 2
    /\ LET request == IF probe = <<>> THEN sel_input.first ELSE sel_input.second
       IN  probe' = Append(probe,
                      _build_suggestion_scope_key(request.field, request.context,
                                                  request.user_id))
    /\ UNCHANGED <<used_audio_urls, calls, sel_input>>
    /\ UNCHANGED <<env, history, counters, RECENT_SUGGESTIONS, req, budget>>

NextScope == BuildScopeKey

SpecScope == InitScope /\ [][NextScope]_vars

\* user id or 'global'
UserOf(request) == IF request.user_id = "" THEN "global" ELSE request.user_id

\* C20: the scope key is a function of (user id or 'global', field, compact
\* context) only: two requests that agree on these get the same key, also
\* when they differ in context entries outside the projection, and two
\* requests that differ in user or in field get different keys.
C20_ScopeKeyFunction ==
    Len(probe) = 2
    => LET a == sel_input.first
           b == sel_input.second
       IN  /\ (/\ UserOf(a) = UserOf(b)
               /\ a.field = b.field
               /\ compact_context(a.context) = compact_context(b.context))
              => probe[1] = probe[2]
           /\ (UserOf(a) # UserOf(b) \/ a.field # b.field)
              => probe[1] # probe[2]

----------------------------------------------------------------------------
(* A scope with a long history (server.py 755-769)                         *)

\* number of suggestions already persisted for the scope
PastRecords == 41

PastWords == <<"Neon", "Sky", "City", "warm", "night", "slow", "pans">>

\* the k-th of the two-word titles over PastWords
PastText(k) == <<PastWords[((k - 1) \div 7) + 1], PastWords[((k - 1) % 7) + 1]>>

\* the scope of the title requests of a user with the context GoodContext
PastScopeOf(user_id) == _build_suggestion_scope_key("title", GoodContext, user_id)

\* the scope of the anonymous title requests with the context GoodContext
PastScope == PastScopeOf("")

\* db.suggestion_history after PastRecords accepted title suggestions of the
\* scope of a user, oldest first; the newest one is "Neon Sky"
PastHistoryOf(user_id) ==
    [k \in 1..PastRecords |->
        [field |-> "title", scope_key |-> PastScopeOf(user_id), user_id |-> user_id,
         suggestion |-> PastText(PastRecords + 2 - k)]]

PastHistory == PastHistoryOf("")

\* a process started after those requests: its cache is empty, the store
\* holds their records and their turn counter
InitRecent ==
    /\ env = [gemini |-> FALSE, openai |-> TRUE, provider |-> "gemini",
              attempts_env |-> 1, store |-> "flaky"]
    /\ history = PastHistory
    /\ counters = (PastScope :> PastRecords)
    /\ RECENT_SUGGESTIONS = [p \in Procs |-> [f \in Fields |-> <<>>]]
    /\ req = [r \in Reqs |-> IdleReq]
    /\ budget = LoopRequests
    /\ OutsideEngineIdle

\* one more request at a time, on top of the long history
SpecRecent == InitRecent /\ [][NextLoop]_vars

\* the find of _load_recent_scope_suggestions of request r has returned
Loaded(r) ==
    /\ req[r].pc = "turn"
    /\ req[r].seen_in_scope # Range(RECENT_SUGGESTIONS[req[r].proc][req[r].field])

\* C27: when the scope of a request holds more than HistoryLimit persisted
\* suggestions, the set _load_recent_scope_suggestions returns contains the
\* normalized texts of the HistoryLimit most recently created records of
\* that (field, scope_key).
C27_MostRecentLoaded ==
    \A r \in Reqs :
        LET docs == Matching(history, req[r].field, req[r].scope_key)
        IN  (Loaded(r) /\ Len(docs) > HistoryLimit)
            => NormalizedOf(Range(LastN(docs, HistoryLimit))) \subseteq req[r].seen_in_scope

----------------------------------------------------------------------------
(* A process with a full cache (server.py 725-735)                         *)

\* RECENT_SUGGESTIONS[field] after _remember_suggestion was called with the
\* suggestion of each record in turn
RECURSIVE RememberAll(_, _)
RememberAll(bucket, records) ==
    IF records = <<>> THEN bucket
    ELSE CHOOSE out \in
             { RememberAll(next, Tail(records)) :
                 next \in {_remember_suggestion(bucket, Head(records).suggestion)} } :
             TRUE

\* process p1 has served the PastRecords title requests of user u1, all
\* accepted and persisted; the requests to come are anonymous
InitCache ==
    /\ env = [gemini |-> FALSE, openai |-> TRUE, provider |-> "gemini",
              attempts_env |-> 1, store |-> "flaky"]
    /\ history = PastHistoryOf("u1")
    /\ counters = (PastScopeOf("u1") :> PastRecords)
    /\ RECENT_SUGGESTIONS =
         [p \in Procs |-> [f \in Fields |->
             IF p = "p1" /\ f = "title"
             THEN RememberAll(<<>>, PastHistoryOf("u1")) ELSE <<>>]]
    /\ req = [r \in Reqs |-> IdleReq]
    /\ budget = LoopRequests
    /\ OutsideEngineIdle

\* one more request at a time, served by the process with the full cache
SpecCache == InitCache /\ [][NextLoop]_vars

\* C28: in every reachable state each field's in-process cache holds at most
\* RecentCacheSize (30) entries and no entry twice, and once a suggestion is
\* accepted its lowercased text is in the cache of its field.
C28_CacheBoundedAndFresh ==
    /\ \A p \in Procs, f \in Fields :
         LET bucket == RECENT_SUGGESTIONS[p][f]
         IN  /\ Len(bucket) <= RecentCacheSize
             /\ \A i, j \in 1..Len(bucket) : i # j => bucket[i] # bucket[j]
    /\ \A r \in Reqs :
         req[r].unique # <<>>
         => LowerText(Trim(req[r].unique))
              \in Range(RECENT_SUGGESTIONS[req[r].proc][req[r].field])

\* a title was accepted by the process whose cache was full: it is the last
\* of the 30 entries, and the oldest entry has left the cache
C28_Witness ==
    \E r \in Reqs :
        LET bucket == RECENT_SUGGESTIONS["p1"]["title"]
        IN  /\ req[r].field = "title" /\ req[r].unique # <<>>
            /\ Len(bucket) = RecentCacheSize
            /\ bucket[RecentCacheSize] = LowerText(Trim(req[r].unique))
            /\ bucket[1] = LowerText(PastText(RecentCacheSize))
            /\ LowerText(PastText(RecentCacheSize + 1)) \notin Range(bucket)

----------------------------------------------------------------------------
(* The turn counter of a scope (server.py 789-808, 1704-1706)              *)

\* number of suggest requests issued in one behaviour of SpecTurn
TurnRequests == 3

\* the requests of SpecTurn: music_prompt suggestions for the anonymous scope
\* and for the scope of user u1
TurnInputs ==
    {i \in Inputs : /\ i.field = "music_prompt"
                    /\ i.context = GoodContext
                    /\ i.current_value = <<>>}

\* a deployment with an OpenAI client whose store answers every operation
InitTurn ==
    /\ env = [gemini |-> FALSE, openai |-> TRUE, provider |-> "gemini",
              attempts_env |-> 1, store |-> "up"]
    /\ history = <<>>
    /\ counters = <<>>
    /\ RECENT_SUGGESTIONS = [p \in Procs |-> [f \in Fields |-> <<>>]]
    /\ req = [r \in Reqs |-> IdleReq]
    /\ budget = TurnRequests
    /\ OutsideEngineIdle

\* POST /suggest (2222-2230) for one of the two scopes
StartTurn(r) == SlotFree(r) /\ Start(r, TurnInputs)

NextTurn ==
    \E r \in Reqs :
        \/ StartTurn(r)
        \/ LoadRecent(r)
        \/ NextScopeTurn(r)
        \/ AttemptRaises(r)
        \/ AttemptReturns(r)
        \/ Persist(r)
        \/ Respond(r)

\* concurrent requests of two processes to two scopes, the store available
SpecTurn == InitTurn /\ [][NextTurn]_vars

\* the stored turn of a scope (0 when it has no counter document)
TurnOf(ctrs, key) == IF key \in DOMAIN ctrs THEN ctrs[key] ELSE 0

TurnScopes == { _build_suggestion_scope_key(i.field, i.context, i.user_id) : i \in TurnInputs }

\* the requests that have not yet called _next_scope_turn
BeforeTurn == {r \in Reqs : req[r].pc \in {"find", "turn"}}

\* the request of slot r is past _next_scope_turn in the next state only
PassesTurn(r) == req[r].pc = "turn" /\ req'[r].pc = "attempt"

\* the counter of every scope moves only when a request of that scope calls
\* _next_scope_turn, and then by 1
CountedOnce ==
    \A key \in TurnScopes :
        TurnOf(counters', key) =
            TurnOf(counters, key)
              + Cardinality({r \in Reqs : PassesTurn(r) /\ req[r].scope_key = key})

\* the counters together count the requests that have called
\* _next_scope_turn, whatever became of them afterwards
AllCounted ==
    /\ DOMAIN counters \subseteq TurnScopes
    /\ LET total == TurnOf(counters, _build_suggestion_scope_key("music_prompt", GoodContext, ""))
                      + TurnOf(counters, _build_suggestion_scope_key("music_prompt", GoodContext, "u1"))
       IN  total = (TurnRequests - budget) - Cardinality(BeforeTurn)

\* C29: with the store available, every suggest request increments the turn
\* counter of its (field, scope_key) by exactly 1 whatever the request's
\* outcome, so after N requests to one scope in any interleaving the stored
\* counter equals N, and it never decreased in between.
C29_TurnCountsRequests == [](AllCounted) /\ [][CountedOnce]_vars

\* three requests to one scope, two of them in flight together, have been
\* counted; one of them failed with HTTP 502 and one returned
C29_Witness ==
    \E key \in TurnScopes :
        /\ TurnOf(counters, key) = TurnRequests
        /\ \E r1, r2 \in Reqs :
             /\ r1 # r2
             /\ req[r1].scope_key = key /\ req[r2].scope_key = key
             /\ req[r1].overlapped /\ req[r2].overlapped
             /\ Failed502(r1)
             /\ Returned(r2)

----------------------------------------------------------------------------
(* The suggestion history under every kind of store (server.py 772-786)    *)

\* number of suggest requests issued in one behaviour of SpecAppend
AppendRequests == 2

\* a deployment with an OpenAI client, and each kind of store
AppendEnvs ==
    { [gemini |-> FALSE, openai |-> TRUE, provider |-> "gemini",
       attempts_env |-> 1, store |-> mode] : mode \in StoreModes \cup {"up"} }

InitAppend == InitWith(AppendEnvs, AppendRequests)

\* POST /suggest (2222-2230), one request at a time
StartAppend == Start("r1", EngineInputs)

NextAppend ==
    \/ StartAppend
    \/ LoadRecent("r1")
    \/ NextScopeTurn("r1")
    \/ AttemptRaises("r1")
    \/ AttemptReturns("r1")
    \/ Persist("r1")
    \/ Respond("r1")

SpecAppend == InitAppend /\ [][NextAppend]_vars

\* request r accepts a suggestion in this step
Accepts(r) == req[r].unique = <<>> /\ req'[r].unique # <<>>

\* request r returns its suggestion in this step
Returns(r) == req[r].pc # "done" /\ req'[r].pc = "done" /\ req'[r].outcome = "ok"

\* request r fails in this step
Fails(r) == req[r].pc # "done" /\ req'[r].pc = "done" /\ req'[r].outcome # "ok"

\* the history changes only by the append of the record of a request that
\* returns, the cache only when a request accepts, and a request that fails
\* has accepted nothing: it left both as they were
OnlyAppendOnAcceptance ==
    /\ history' # history
       => \E r \in Reqs : Returns(r) /\ history' = Append(history, RecordOf(r))
    /\ RECENT_SUGGESTIONS' # RECENT_SUGGESTIONS => \E r \in Reqs : Accepts(r)
    /\ \A r \in Reqs :
         Fails(r) => (/\ req'[r].unique = <<>>
                      /\ history' = history
                      /\ RECENT_SUGGESTIONS' = RECENT_SUGGESTIONS)

\* C30: suggestion history changes only by appending on acceptance: a suggest
\* request that fails leaves the persisted history and the in-process cache
\* exactly as they were, a request that succeeds adds exactly one record, and
\* no operation updates or deletes an existing record.
C30_AppendOnlyExactlyOne ==
    [][/\ OnlyAppendOnAcceptance
       /\ \A r \in Reqs : Returns(r) => history' = Append(history, RecordOf(r))]_vars

\* C30, amended: as above, but a request that succeeds adds exactly one
\* record when the store answers every operation, and one record or none
\* when the insert may raise or db has no suggestion_history collection.
C30_AppendOnlyAtMostOne ==
    [][/\ OnlyAppendOnAcceptance
       /\ \A r \in Reqs :
            Returns(r) => (/\ history' \in {history, Append(history, RecordOf(r))}
                           /\ env.store = "up" => history' # history
                           /\ env.store \in {"absent", "down"} => history' = history)]_vars

\* two requests of one scope have returned, one after the other, and the
\* history holds their two records in that order
C30_Witness ==
    /\ Returned("r1")
    /\ budget = 0
    /\ Len(history) = 2
    /\ history[2] = RecordOf("r1")
    /\ history[1].scope_key = history[2].scope_key
    /\ history[1].suggestion # history[2].suggestion

----------------------------------------------------------------------------
(* The music context of one attempt (server.py 1491-1602, 1651-1694)       *)

Pop == <<"P", "o", "p">>
House == <<"H", "o", "u", "s", "e">>
Spanish == <<"S", "p", "a", "n", "i", "s", "h">>
Instrumental == <<"I", "n", "s", "t", "r", "u", "m", "e", "n", "t", "a", "l">>
EnglishVocals == <<"E", "n", "g", "l", "i", "s", "h", " ", "v", "o", "c", "a", "l", "s">>

\* the word a one-word genre name is in a text of tokens, alone and in front
\* of a comma
Word(genre) ==
    CASE genre = Pop -> "Pop"
      [] genre = House -> "House"
      [] OTHER -> "Techno"
WordComma(genre) ==
    CASE genre = Pop -> "Pop,"
      [] genre = House -> "House,"
      [] OTHER -> "Techno,"

\* str.title() of an emotion, the same after a quote, and an emotion or an
\* energy in front of a full stop
Titled(word) == IF word = "cosmic" THEN "Cosmic" ELSE "Dark"
Quoted(word) == IF word = "cosmic" THEN "'Cosmic" ELSE "'Dark"
Stopped(word) ==
    CASE word = "cosmic" -> "cosmic."
      [] word = "dark" -> "dark."
      [] word = "low" -> "low."
      [] OTHER -> "pulsing."

\* str(tempo_bpm)
TempoToken(bpm) ==
    CASE bpm = 110 -> "110"
      [] bpm = 116 -> "116"
      [] OTHER -> "120"

\* tempo_base_map (1500-1503)
tempo_base_map(emotion) == IF emotion = "cosmic" THEN 96 ELSE 102

\* the values the entropy seed of one attempt decides (_entropy_int of the
\* seed and a label): the emotion and the energy, the tempo variation, the
\* index of the fusion genre in get_all_genres() (counted from 0), the draw
\* for the vocal profile (modulo 4) and the one for the duration (modulo 300)
Entropies ==
    [ emotion : {"cosmic", "dark"}, energy : {"low", "pulsing"}, tempo : {14},
      fusion : {3, 9}, vocal : 0..3, duration : {0, 128} ]

\* what _safe_json_dict makes of the generator's text: the entries of the
\* JSON object it holds (none for a text that is no JSON object); <<>> is an
\* entry that is missing or empty
PlainAnswer ==
    [ tempoProfile |-> [type |-> "none", val |-> 0],
      vocalProfile |-> <<>>, lyricsTheme |-> <<>> ]
FieldAnswers ==
    { PlainAnswer,
      [PlainAnswer EXCEPT !.vocalProfile = Spanish, !.lyricsTheme = <<"city", "lights">>],
      [PlainAnswer EXCEPT !.vocalProfile = Instrumental],
      [PlainAnswer EXCEPT !.tempoProfile = [type |-> "num", val |-> 120]],
      [PlainAnswer EXCEPT !.tempoProfile = [type |-> "text", val |-> 0]] }

\* the request contexts: the prompt and the genres of GoodContext-like
\* requests, with and without vocal languages
FieldContexts ==
    { [music_prompt |-> [type |-> "str", val |-> "dark pop"], title |-> "",
       genres |-> [type |-> "list", val |-> <<Pop, House>>],
       vocal_languages |-> langs] : langs \in {<<>>, <<Spanish>>} }

\* int(ctx.get("tempoProfile") or 0) raises ValueError on a text that is no
\* number (1511)
CoerceRaises(raw) == raw.tempoProfile.type = "text"

\* _coerce_music_context, for a request context with two genres and no
\* title: the entries _suggestion_from_music_context reads
_coerce_music_context(raw, incoming, entropy) ==
    LET emotion == entropy.emotion
        energy == entropy.energy
        given == IF raw.tempoProfile.type = "num" THEN raw.tempoProfile.val ELSE 0
        tempo_bpm == IF given <= 0 THEN tempo_base_map(emotion) + entropy.tempo ELSE given
        tempo == TempoToken(tempo_bpm)
        primary == incoming.genres.val[1]
        secondary == incoming.genres.val[2]
        drawn == get_all_genres[entropy.fusion + 1]
        fusion_genre == IF drawn \in {primary, secondary}
                        THEN get_all_genres[((entropy.fusion + 2) % Len(get_all_genres)) + 1]
                        ELSE drawn
        track_name == <<Titled(emotion), Word(primary), "3FA29B">>
        base_duration == IF energy \in {"low", "gradual rise"} THEN 120 ELSE 180
        vocalProfile ==
            IF strip(raw.vocalProfile) # <<>> THEN raw.vocalProfile
            ELSE IF incoming.vocal_languages # <<>>
            THEN IF \E i \in 1..Len(incoming.vocal_languages) :
                       incoming.vocal_languages[i] = Instrumental
                 THEN Instrumental
                 ELSE JoinComma(FirstN(incoming.vocal_languages, 3))
            ELSE IF entropy.vocal = 0 THEN Instrumental ELSE EnglishVocals
        instrumentation ==
            <<Word(primary), "and", Word(secondary), "textures,", "tempo-focused",
              "layers", "near", tempo, "BPM,", "and", "entropy-derived", "timbral",
              "variation", "seed", "3fa29b12-3.">>
    IN  [ trackName |-> track_name,
          genres |-> [primaryGenre |-> primary, secondaryGenre |-> secondary,
                      fusionGenre |-> fusion_genre],
          durationProfile |-> base_duration + entropy.duration,
          artistInspiration |-> <<"Daft", "Punk,", "The", "Weeknd">>,
          vocalProfile |-> vocalProfile,
          lyricsTheme |->
              IF Trim(raw.lyricsTheme) # <<>> THEN [none |-> FALSE, text |-> raw.lyricsTheme]
              ELSE IF Contains(lower(vocalProfile), lower(Instrumental))
              THEN [none |-> TRUE, text |-> <<>>]
              ELSE [none |-> FALSE,
                    text |-> <<"A", emotion, "narrative", "anchored", "to", "the",
                               "symbol", Quoted(emotion), Word(primary), "3FA29B'.">>],
          musicDescription |->
              <<"dark", "pop", "Emotional", "profile:", Stopped(emotion),
                "Energy", "profile:", Stopped(energy), "Tempo", "profile:", tempo,
                "BPM.", "Instrumentation", "profile:">> \o instrumentation,
          visualProfile |->
              <<"Visual", "environment", "derived", "from", emotion, "and",
                WordComma(fusion_genre), "with", "motion", "intensity", "matching",
                energy, "dynamics", "and", "camera", "rhythm", "synced", "near",
                tempo, "BPM.">> ]

\* the genre names, each once, in their order (1664-1668)
UniqueValues(values) ==
    Pick(values, {i \in 1..Len(values) :
                    values[i] # <<>> /\ \A j \in 1..(i - 1) : values[j] # values[i]})

_suggestion_from_music_context(field, music_context) ==
    CASE field = "title" -> Trim(music_context.trackName)
      [] field = "music_prompt" -> Trim(music_context.musicDescription)
      [] field = "genres" ->
           JoinComma(FirstN(UniqueValues(<<strip(music_context.genres.primaryGenre),
                                           strip(music_context.genres.secondaryGenre),
                                           strip(music_context.genres.fusionGenre)>>), 4))
      [] field = "artist_inspiration" -> Trim(music_context.artistInspiration)
      [] field = "video_style" -> Trim(music_context.visualProfile)
      [] field = "lyrics" ->
           IF music_context.lyricsTheme.none THEN <<>>
           ELSE Trim(music_context.lyricsTheme.text)
      [] field = "vocal_languages" ->
           IF strip(music_context.vocalProfile) = <<>> THEN <<>>
           ELSE IF Contains(lower(strip(music_context.vocalProfile)), lower(Instrumental))
           THEN Instrumental
           ELSE strip(music_context.vocalProfile)
      [] field = "duration" -> _seconds_to_duration_text(music_context.durationProfile)
      [] OTHER -> <<>>

----------------------------------------------------------------------------
(* Suggest requests for each of the eight fields                           *)

\* number of suggest requests issued in one behaviour of SpecFields
FieldRequests == 1

AllFields == Fields \cup CharFields

\* the deployment of tests/test_api_runtime_flows.py: an OpenAI client that
\* answers every call, with the suggestion collections on db or without
FieldEnvs ==
    { [gemini |-> FALSE, openai |-> TRUE, provider |-> "gemini",
       attempts_env |-> 1, store |-> mode] : mode \in {"absent", "up"} }

\* the generator of the deployment answers every call with the same text;
\* the requests carry the same context
InitFields ==
    /\ env \in FieldEnvs
    /\ history = <<>>
    /\ counters = <<>>
    /\ RECENT_SUGGESTIONS = [p \in Procs |-> [f \in AllFields |-> <<>>]]
    /\ req = [r \in Reqs |-> IdleReq]
    /\ budget = FieldRequests
    /\ used_audio_urls = {}
    /\ calls = <<>>
    /\ probe = <<>>
    /\ sel_input \in [answer : FieldAnswers, context : FieldContexts]

\* POST /suggest (2222-2230) for one of the eight fields, nothing typed into
\* the field yet
StartFields ==
    Start("r1", [field : AllFields, user_id : {""}, context : {sel_input.context},
                 current_value : {<<>>}])

\* one iteration of the loop of generate_ai_suggestion (1710-1744) with a
\* generator that answers: the context is coerced under the entropy seed of
\* the attempt, the suggestion of the field is taken from it, stripped and
\* validated, and _finalize_unique_suggestion runs up to its await on the
\* store
AttemptField(r) ==
    /\ req[r].pc = "attempt"
    /\ \E entropy \in Entropies :
         LET q == [req[r] EXCEPT !.called = TRUE]
             bucket == RECENT_SUGGESTIONS[q.proc][q.field]
         IN  IF CoerceRaises(sel_input.answer)
             THEN /\ req' = [req EXCEPT ![r] = AfterRejection(q, CoerceErrorMsg, FALSE)]
                  /\ UNCHANGED RECENT_SUGGESTIONS
             ELSE \E suggestion \in
                      { ValidateForField(q.field, _strip_machine_suffixes(q.field, raw)) :
                          raw \in { _suggestion_from_music_context(q.field, music_context) :
                              music_context \in { _coerce_music_context(sel_input.answer,
                                                      sel_input.context, entropy) } } } :
                    \E unique \in { FinalizedText(q.field, suggestion, q.current_value,
                                                  q.seen_in_scope, bucket) } :
                      IF suggestion = <<>>
                      THEN /\ req' = [req EXCEPT ![r] = AfterRejection(q, EmptyMsg, FALSE)]
                           /\ UNCHANGED RECENT_SUGGESTIONS
                      ELSE IF unique = <<>>
                      THEN /\ req' = [req EXCEPT ![r] = AfterRejection(q, DuplicateMsg, FALSE)]
                           /\ UNCHANGED RECENT_SUGGESTIONS
                      ELSE /\ req' = [req EXCEPT ![r] =
                                        [q EXCEPT !.pc = IF env.store = "absent"
                                                         THEN "done" ELSE "persist",
                                                  !.outcome = IF env.store = "absent"
                                                              THEN "ok" ELSE "",
                                                  !.attempt = @ + 1,
                                                  !.unique = unique,
                                                  !.seen_in_scope =
                                                      @ \cup {_normalize_suggestion_text(unique)}]]
                           /\ RECENT_SUGGESTIONS' =
                                [RECENT_SUGGESTIONS EXCEPT ![q.proc][q.field] =
                                    _remember_suggestion(bucket, unique)]
    /\ UNCHANGED <<env, history, counters, budget>>
    /\ UNCHANGED outsideEngine

NextFields ==
    \/ StartFields
    \/ LoadRecent("r1")
    \/ NextScopeTurn("r1")
    \/ AttemptField("r1")
    \/ Persist("r1")
    \/ Respond("r1")

SpecFields == InitFields /\ [][NextFields]_vars

\* the scope of request r held no suggestion when the request arrived: the
\* history and the cache of the field hold at most what r itself added
ScopeWasEmpty(r) ==
    /\ \A i \in 1..Len(history) :
         (history[i].field = req[r].field /\ history[i].scope_key = req[r].scope_key)
         => (req[r].unique # <<>> /\ history[i] = RecordOf(r))
    /\ \A i \in 1..Len(RECENT_SUGGESTIONS[req[r].proc][req[r].field]) :
         /\ req[r].unique # <<>>
         /\ RECENT_SUGGESTIONS[req[r].proc][req[r].field][i] = LowerText(Trim(req[r].unique))

\* C21: on a scope with no history, with a generator that answers every call
\* with some text, a suggest request for each of the eight fields (title,
\* music_prompt, genres, vocal_languages, lyrics, artist_inspiration,
\* video_style, duration) ends with a non-empty suggestion (HTTP 200).
C21_EveryFieldAccepted ==
    \A r \in Reqs :
        (Done(r) /\ req[r].field \in AllFields /\ ScopeWasEmpty(r))
        => (req[r].outcome = "ok" /\ req[r].unique # <<>>)

----------------------------------------------------------------------------
(* generate_track_audio under every setting (server.py 810-905)            *)

\* FREE_TIER_MODE (74), MUSICGEN_API_URL set or not (63), and
\* STRICT_REAL_MEDIA_OUTPUT (73): three independent environment variables
MediaSettings ==
    [FREE_TIER_MODE : BOOLEAN, MUSICGEN_API_URL : BOOLEAN,
     STRICT_REAL_MEDIA_OUTPUT : BOOLEAN]

\* what the POST to the MusicGen endpoint does: audio bytes (875-879), a JSON
\* body with an audio url (881-885), a status >= 400 (865-871), a body
\* without an audio url (886), or an exception (888-890)
ProviderReplies == {"audio_bytes", "audio_url", "http_error", "missing_url", "exception"}

\* the tuple generate_track_audio returns (the audio is named by the url of
\* the asset, to which _make_unique_media_url adds a query parameter), or
\* HTTPException(502)
TrackAudio(asset, duration, is_demo, provider_name) ==
    [status |-> 200, audio |-> asset, duration |-> duration, is_demo |-> is_demo,
     provider |-> provider_name]
TrackAudio502 ==
    [status |-> 502, audio |-> "", duration |-> 0, is_demo |-> FALSE, provider |-> ""]

\* the tuple for an asset of the curated library (822-826, 901-905)
Curated(selected, song_payload, provider_name) ==
    TrackAudio(selected.url,
               _normalize_duration_seconds(song_payload.duration_seconds, selected.duration),
               TRUE, provider_name)

generate_track_audio(settings, reply, song_payload, used_urls, tie) ==
    LET selected == select_audio_for_genres(song_payload.genres, used_urls, song_payload, tie)
        requested == _normalize_duration_seconds(song_payload.duration_seconds, 30)
    IN  IF settings.FREE_TIER_MODE
        THEN Curated(selected, song_payload, "free_curated_library")
        ELSE IF settings.MUSICGEN_API_URL /\ reply \in {"audio_bytes", "audio_url"}
        THEN TrackAudio(ProviderAudio.url, requested, FALSE, "self_host_musicgen")
        ELSE IF settings.STRICT_REAL_MEDIA_OUTPUT
        THEN TrackAudio502
        ELSE Curated(selected, song_payload, "curated_demo_library")

InitTrack ==
    /\ EngineIdle
    /\ calls = <<>>
    /\ probe = <<>>
    /\ sel_input \in MediaSettings
    /\ used_audio_urls \in RecentUrlSets

\* one call of generate_track_audio; the url of a curated asset goes into
\* the used set of the caller (823, 902)
GenerateTrackAudio ==
    /\ Len(probe) < MaxCalls
    /\ \E song_payload \in TrackPayloads, reply \in ProviderReplies :
         \E tie \in TieChoices(get_genre_category(song_payload.genres)) :
           \E result \in { generate_track_audio(sel_input, reply, song_payload,
                                                used_audio_urls, tie) } :
             /\ probe' = Append(probe, result)
             /\ used_audio_urls' = IF result.is_demo
                                   THEN used_audio_urls \cup {result.audio}
                                   ELSE used_audio_urls
    /\ UNCHANGED <<calls, sel_input>>
    /\ UNCHANGED <<env, history, counters, RECENT_SUGGESTIONS, req, budget>>

NextTrack == GenerateTrackAudio

SpecTrack == InitTrack /\ [][NextTrack]_vars

\* C25: when STRICT_REAL_MEDIA_OUTPUT is enabled, generate_track_audio never
\* returns a curated demo asset (is_demo true): for every combination of the
\* other settings it either returns audio from the real provider or fails
\* with HTTP 502.
C25_StrictNeverDemo ==
    sel_input.STRICT_REAL_MEDIA_OUTPUT
    => \A i \in 1..Len(probe) :
         \/ probe[i].status = 502
         \/ probe[i].status = 200 /\ ~probe[i].is_demo
                                  /\ probe[i].provider = "self_host_musicgen"

----------------------------------------------------------------------------
(* signup and login (server.py 2177-2218) over the primary and the legacy  *)
(* user store. In this specification sel_input is the deployment (whether  *)
(* legacy_db is set, 51), probe holds db.users, legacy_db.users, the       *)
(* number of ids issued and the responses sent, and calls holds, per slot, *)
(* the handler running there and what it has awaited so far.                *)

AuthRequests == 3

MASTER_ADMIN_MOBILE == "9873945238"
MASTER_ADMIN_NAME == "Anchit Tandon"
MASTER_ADMIN_ROLE == "Master User"

LegacyMobile == "1234500000"
Mobiles == {LegacyMobile, MASTER_ADMIN_MOBILE}
SignupNames == {"Test User", " Test User "}

\* str.strip() on the names of this model
StripName(name) ==
    CASE name = " Test User " -> "Test User"
      [] name = " Legacy User" -> "Legacy User"
      [] name = " " -> ""
      [] OTHER -> name

\* uuid4 (384): an id no stored user has
NewId(issued) == <<"uuid-1", "uuid-2", "uuid-3", "uuid-4">>[issued + 1]

\* dict.get(key) or "" of a stored document
GetOr(doc, key) == IF key \in DOMAIN doc THEN doc[key] ELSE ""

\* the document with the fields of update written over those of doc ($set)
SetFields(doc, update) ==
    [k \in DOMAIN doc \cup DOMAIN update |->
        IF k \in DOMAIN update THEN update[k] ELSE doc[k]]

\* collection.find_one({key: value}): the first matching document, as a
\* list of one, or the empty list for None
find_one(docs, key, value) ==
    LET hits == {i \in 1..Len(docs) : key \in DOMAIN docs[i] /\ docs[i][key] = value}
    IN  IF hits = {} THEN <<>>
        ELSE <<docs[CHOOSE i \in hits : \A j \in hits : i <= j]>>

\* collection.update_one({"id": id}, {"$set": update}, upsert=upsert)
update_one(docs, id, update, upsert) ==
    LET hits == {i \in 1..Len(docs) : "id" \in DOMAIN docs[i] /\ docs[i].id = id}
    IN  IF hits = {}
        THEN IF upsert THEN Append(docs, SetFields([id |-> id], update)) ELSE docs
        ELSE LET first == CHOOSE i \in hits : \A j \in hits : i <= j
             IN  [docs EXCEPT ![first] = SetFields(docs[first], update)]

\* the users a legacy store may hold: written by an earlier release, with or
\* without a role, the name as it was typed
LegacyUsers ==
    { [id |-> "legacy-user-1", name |-> "Legacy User", mobile |-> LegacyMobile,
       created_at |-> "2026-02-16"],
      [id |-> "legacy-user-1", name |-> " Legacy User", mobile |-> LegacyMobile,
       role |-> "User", created_at |-> "2026-02-16"],
      [id |-> "legacy-user-1", name |-> "Legacy User", mobile |-> LegacyMobile,
       role |-> "User", created_at |-> "2026-02-16"] }

LegacyStores == {<<>>} \cup {<<u>> : u \in LegacyUsers}

IdleHandler == [pc |-> "idle", op |-> "", name |-> "", mobile |-> "",
                found |-> <<>>, consulted |-> <<>>]

\* _normalized_user_profile (2550-2568)
_normalized_user_profile(user) ==
    LET mobile == GetOr(user, "mobile")
        is_master == mobile = MASTER_ADMIN_MOBILE
        name == StripName(GetOr(user, "name"))
        role == GetOr(user, "role")
    IN  SetFields(user,
            [name |-> IF is_master THEN MASTER_ADMIN_NAME
                      ELSE IF name = "" THEN "User" ELSE name,
             role |-> IF is_master THEN MASTER_ADMIN_ROLE
                      ELSE IF role = "" THEN "User" ELSE role])

\* the update_fields of _persist_normalized_user (2573-2577); a missing
\* field reads as None and so differs from every normalized value
UpdateFields(user, normalized) ==
    LET changed == {k \in {"name", "role"} :
                       k \notin DOMAIN user \/ user[k] # normalized[k]}
    IN  [k \in changed |-> normalized[k]]

\* a lookup that turns to the legacy store first and to the primary store
\* when the legacy lookup found nothing
NextStore_legacyFirst(consulted, legacy_db) ==
    IF consulted = <<>> THEN (IF legacy_db THEN "legacy" ELSE "primary")
    ELSE IF Len(consulted) = 1 /\ ~consulted[1].found /\ consulted[1].store = "legacy"
         THEN "primary"
    ELSE "none"

\* the store that a lookup turns to next: the primary store first, the
\* legacy store when the primary lookup found nothing and legacy_db is set
\* (2179-2181, 2204-2206)
NextStore(consulted, legacy_db) ==
    IF consulted = <<>> THEN "primary"
    ELSE IF Len(consulted) = 1 /\ ~consulted[1].found /\ legacy_db THEN "legacy"
    ELSE "none"

InitAuth ==
    /\ env = [gemini |-> FALSE, openai |-> FALSE, provider |-> "gemini",
              attempts_env |-> 3, store |-> "up"]
    /\ history = <<>>
    /\ counters = <<>>
    /\ RECENT_SUGGESTIONS = [p \in Procs |-> [f \in Fields |-> <<>>]]
    /\ req = [r \in Reqs |-> IdleReq]
    /\ budget = AuthRequests
    /\ used_audio_urls = {}
    /\ sel_input \in [legacy_db : BOOLEAN]
    /\ calls = [r \in Reqs |-> IdleHandler]
    /\ probe \in [users : {<<>>},
                  legacy_users : IF sel_input.legacy_db THEN LegacyStores ELSE {<<>>},
                  issued : {0},
                  responses : {<<>>}]

authFrame == <<env, history, counters, RECENT_SUGGESTIONS, req, used_audio_urls, sel_input>>

\* a POST /auth/signup arrives (2178)
StartSignup(r) ==
    /\ budget > 0
    /\ calls[r].pc = "idle"
    /\ \E name \in SignupNames, mobile \in Mobiles :
         calls' = [calls EXCEPT ![r] = [IdleHandler EXCEPT !.pc = "lookup",
                      !.op = "signup", !.name = name, !.mobile = mobile]]
    /\ budget' = budget - 1
    /\ UNCHANGED <<probe, authFrame>>

\* a POST /auth/login arrives (2203)
StartLogin(r) ==
    /\ budget > 0
    /\ calls[r].pc = "idle"
    /\ \E mobile \in Mobiles :
         calls' = [calls EXCEPT ![r] = [IdleHandler EXCEPT !.pc = "lookup",
                      !.op = "login", !.mobile = mobile]]
    /\ budget' = budget - 1
    /\ UNCHANGED <<probe, authFrame>>

\* one awaited find_one of a handler (2179, 2181, 2204, 2206)
Lookup(r) ==
    /\ calls[r].pc = "lookup"
    /\ LET store == NextStore(calls[r].consulted, sel_input.legacy_db)
           docs == IF store = "primary" THEN probe.users ELSE probe.legacy_users
           found == find_one(docs, "mobile", calls[r].mobile)
           consulted == Append(calls[r].consulted,
                               [store |-> store, found |-> found # <<>>])
       IN  /\ store # "none"
           /\ calls' = [calls EXCEPT ![r].found = found,
                           ![r].consulted = consulted,
                           ![r].pc = IF NextStore(consulted, sel_input.legacy_db) = "none"
                                     THEN "decide" ELSE "lookup"]
    /\ UNCHANGED <<probe, budget, authFrame>>

Response(h, status, id) ==
    [op |-> h.op, mobile |-> h.mobile, status |-> status, id |-> id,
     consulted |-> h.consulted]

\* the rest of signup (2182-2200): HTTP 400 when a lookup found an account,
\* otherwise the awaited insert_one and the response
SignupFinish(r) ==
    /\ calls[r].pc = "decide"
    /\ calls[r].op = "signup"
    /\ LET h == calls[r]
           is_master == h.mobile = MASTER_ADMIN_MOBILE
           user == [id |-> NewId(probe.issued),
                    name |-> IF is_master THEN MASTER_ADMIN_NAME ELSE StripName(h.name),
                    mobile |-> h.mobile,
                    role |-> IF is_master THEN MASTER_ADMIN_ROLE ELSE "User",
                    created_at |-> "now"]
       IN  IF h.found # <<>>
           THEN probe' = [probe EXCEPT
                            !.responses = Append(@, Response(h, 400, ""))]
           ELSE probe' = [probe EXCEPT
                            !.users = Append(@, user),
                            !.issued = @ + 1,
                            !.responses = Append(@, Response(h, 200, user.id))]
    /\ calls' = [calls EXCEPT ![r] = IdleHandler]
    /\ UNCHANGED <<budget, authFrame>>

\* the rest of login (2207-2218): HTTP 404 when no lookup found an account,
\* otherwise _persist_normalized_user (2571-2582) and the response
LoginFinish(r) ==
    /\ calls[r].pc = "decide"
    /\ calls[r].op = "login"
    /\ LET h == calls[r]
       IN  IF h.found = <<>>
           THEN probe' = [probe EXCEPT
                            !.responses = Append(@, Response(h, 404, ""))]
           ELSE LET user == h.found[1]
                    normalized == _normalized_user_profile(user)
                    update_fields == UpdateFields(user, normalized)
                    persist == DOMAIN update_fields # {} /\ GetOr(normalized, "id") # ""
                IN  probe' = [probe EXCEPT
                        !.users = IF persist
                                  THEN update_one(@, normalized.id, update_fields, TRUE)
                                  ELSE @,
                        !.legacy_users = IF persist /\ sel_input.legacy_db
                                  THEN update_one(@, normalized.id, update_fields, FALSE)
                                  ELSE @,
                        !.responses = Append(@, Response(h, 200, normalized.id))]
    /\ calls' = [calls EXCEPT ![r] = IdleHandler]
    /\ UNCHANGED <<budget, authFrame>>

NextAuth ==
    \E r \in Reqs :
        \/ StartSignup(r)
        \/ StartLogin(r)
        \/ Lookup(r)
        \/ SignupFinish(r)
        \/ LoginFinish(r)

SpecAuth == InitAuth /\ [][NextAuth]_vars

\* the stored users of a collection that carry the mobile number
WithMobile(docs, mobile) ==
    {i \in 1..Len(docs) : "mobile" \in DOMAIN docs[i] /\ docs[i].mobile = mobile}

C26_LegacyLogin ==
    /\ \A i \in 1..Len(probe.responses) :
         LET res == probe.responses[i]
         IN  ( /\ res.op = "login"
               /\ WithMobile(probe.users, res.mobile) = {}
               /\ WithMobile(probe.legacy_users, res.mobile) # {} )
             => /\ res.status = 200
                /\ res.id = find_one(probe.legacy_users, "mobile", res.mobile)[1].id
                /\ res.consulted = << [store |-> "primary", found |-> FALSE],
                                      [store |-> "legacy", found |-> TRUE] >>
    /\ \A r \in Reqs :
         LET consulted == calls[r].consulted
         IN  /\ Len(consulted) <= 2
             /\ Len(consulted) >= 1 => consulted[1].store = "primary"
             /\ Len(consulted) = 2 => /\ ~consulted[1].found
                                      /\ consulted[2].store = "legacy"

\* a legacy user without a role has logged in: the role was written to both
\* stores and the response carries the legacy id
C26_Witness ==
    /\ \E i \in 1..Len(probe.responses) :
         /\ probe.responses[i].op = "login"
         /\ probe.responses[i].status = 200
         /\ probe.responses[i].id = "legacy-user-1"
    /\ WithMobile(probe.users, LegacyMobile) = {}
    /\ \E i \in 1..Len(probe.users) : probe.users[i].id = "legacy-user-1"

----------------------------------------------------------------------------
(* generate_song_video, its background task and get_video_status           *)
(* (server.py 3025-3158). In this specification sel_input is the           *)
(* deployment, probe holds db.songs, the background tasks scheduled and    *)
(* the responses sent, and calls holds the handler running in each slot.   *)

VideoRequests == 3

VideoSettings ==
    [REPLICATE_API_TOKEN : BOOLEAN, FREE_TIER_MODE : BOOLEAN,
     STRICT_REAL_MEDIA_OUTPUT : BOOLEAN]

SongIds == {"s1", "s2"}
SongUsers == {"u1", "u2"}

\* the songs a store may hold before the requests: create_song (2312) stores
\* None or "queued" when no video is ready, an earlier task may have failed,
\* and a song of an earlier release has no video_status at all
StoredSongs ==
    { [id |-> "s1", user_id |-> "u1"] }
    \cup { [id |-> "s1", user_id |-> "u1", video_status |-> st] :
             st \in {"null", "queued", "failed"} }

\* what _generate_video_via_replicate does in a task: a url, None, or raise
ReplicateOutcomes == {"url", "none", "raises"}

IdleVideo == [pc |-> "idle", op |-> "", song_id |-> "", user_id |-> "", song |-> <<>>]

\* db.songs.find_one({"id": song_id, "user_id": user_id})
FindSong(songs, song_id, user_id) ==
    IF song_id \in DOMAIN songs /\ songs[song_id].user_id = user_id
    THEN <<songs[song_id]>> ELSE <<>>

\* db.songs.update_one({"id": song_id}, {"$set": update})
UpdateSong(songs, song_id, update) ==
    IF song_id \in DOMAIN songs
    THEN [songs EXCEPT ![song_id] = SetFields(@, update)]
    ELSE songs

VideoResult(http, status, update, scheduled) ==
    [http |-> http, status |-> status, update |-> update, scheduled |-> scheduled]

NoUpdate == [k \in {} |-> ""]

\* a handler that answers as generate_song_video does and writes nothing
generate_song_video_noWrite(settings, found) ==
    IF found = <<>> THEN VideoResult(404, "", NoUpdate, FALSE)
    ELSE IF settings.REPLICATE_API_TOKEN /\ ~settings.FREE_TIER_MODE
         THEN VideoResult(200, "processing", NoUpdate, TRUE)
    ELSE IF settings.STRICT_REAL_MEDIA_OUTPUT
         THEN VideoResult(502, "", NoUpdate, FALSE)
    ELSE VideoResult(200, "generated", NoUpdate, FALSE)

\* generate_song_video after its find_one (3097-3140): the HTTP status, the
\* status of the body, the fields written to the song and whether the
\* background task is scheduled
generate_song_video(settings, found) ==
    IF found = <<>> THEN VideoResult(404, "", NoUpdate, FALSE)
    ELSE IF settings.REPLICATE_API_TOKEN /\ ~settings.FREE_TIER_MODE
         THEN VideoResult(200, "processing",
                          [video_status |-> "processing"], TRUE)
    ELSE IF settings.STRICT_REAL_MEDIA_OUTPUT
         THEN VideoResult(502, "", NoUpdate, FALSE)
    ELSE VideoResult(200, "generated",
                     [video_url |-> "sample", generate_video |-> "true",
                      video_status |-> "completed"], FALSE)

\* the fields that _run_video_generation_task writes for a song it found
\* (3033-3087)
TaskUpdate(settings, outcome) ==
    IF outcome = "raises"
    THEN IF settings.STRICT_REAL_MEDIA_OUTPUT
         THEN [video_status |-> "failed", video_error |-> "raised"]
         ELSE [video_url |-> "sample", video_status |-> "completed",
               generate_video |-> "true"]
    ELSE IF settings.FREE_TIER_MODE \/ outcome = "none"
    THEN IF settings.STRICT_REAL_MEDIA_OUTPUT
         THEN [video_status |-> "failed",
               video_error |-> "Real video generation failed"]
         ELSE [video_url |-> "sample", generate_video |-> "true",
               video_status |-> "completed"]
    ELSE [video_url |-> "replicate", generate_video |-> "true",
          video_status |-> "completed"]

InitVideo ==
    /\ env = [gemini |-> FALSE, openai |-> FALSE, provider |-> "gemini",
              attempts_env |-> 3, store |-> "up"]
    /\ history = <<>>
    /\ counters = <<>>
    /\ RECENT_SUGGESTIONS = [p \in Procs |-> [f \in Fields |-> <<>>]]
    /\ req = [r \in Reqs |-> IdleReq]
    /\ budget = VideoRequests
    /\ used_audio_urls = {}
    /\ sel_input \in VideoSettings
    /\ calls = [r \in Reqs |-> IdleVideo]
    /\ probe \in [songs : {[id \in {"s1"} |-> doc] : doc \in StoredSongs},
                  tasks : {<<>>},
                  responses : {<<>>}]

\* a POST /songs/{song_id}/generate-video or a GET /songs/{song_id}/video-status
\* arrives and its find_one is awaited (3096, 3150)
StartVideo(r) ==
    /\ budget > 0
    /\ calls[r].pc = "idle"
    /\ \E op \in {"generate", "status"}, song_id \in SongIds, user_id \in SongUsers :
         calls' = [calls EXCEPT ![r] =
                     [pc |-> "found", op |-> op, song_id |-> song_id,
                      user_id |-> user_id,
                      song |-> FindSong(probe.songs, song_id, user_id)]]
    /\ budget' = budget - 1
    /\ UNCHANGED <<probe, authFrame>>

\* the rest of generate_song_video: the update_one, the scheduling of the
\* task and the response (3097-3145)
GenerateSongVideo(r) ==
    /\ calls[r].pc = "found"
    /\ calls[r].op = "generate"
    /\ LET h == calls[r]
           result == generate_song_video(sel_input, h.song)
       IN  probe' = [probe EXCEPT
               !.songs = UpdateSong(@, h.song_id, result.update),
               !.tasks = IF result.scheduled
                         THEN Append(@, [song_id |-> h.song_id, user_id |-> h.user_id])
                         ELSE @,
               !.responses = Append(@, [op |-> "generate", song_id |-> h.song_id,
                                        http |-> result.http, status |-> result.status])]
    /\ calls' = [calls EXCEPT ![r] = IdleVideo]
    /\ UNCHANGED <<budget, authFrame>>

\* the rest of get_video_status (3151-3158)
GetVideoStatus(r) ==
    /\ calls[r].pc = "found"
    /\ calls[r].op = "status"
    /\ LET h == calls[r]
       IN  probe' = [probe EXCEPT
               !.responses = Append(@,
                   IF h.song = <<>>
                   THEN [op |-> "status", song_id |-> h.song_id, http |-> 404,
                         status |-> ""]
                   ELSE [op |-> "status", song_id |-> h.song_id, http |-> 200,
                         status |-> IF "video_status" \in DOMAIN h.song[1]
                                    THEN h.song[1].video_status ELSE "pending"])]
    /\ calls' = [calls EXCEPT ![r] = IdleVideo]
    /\ UNCHANGED <<budget, authFrame>>

\* _run_video_generation_task (3025-3087) for the task scheduled first
RunVideoGenerationTask ==
    /\ probe.tasks # <<>>
    /\ LET task == Head(probe.tasks)
           found == FindSong(probe.songs, task.song_id, task.user_id)
       IN  \E outcome \in ReplicateOutcomes :
             probe' = [probe EXCEPT
                 !.tasks = Tail(@),
                 !.songs = IF found = <<>> THEN @
                           ELSE UpdateSong(@, task.song_id,
                                           TaskUpdate(sel_input, outcome))]
    /\ UNCHANGED <<calls, budget, authFrame>>

NextVideo ==
    \/ \E r \in Reqs :
        \/ StartVideo(r)
        \/ GenerateSongVideo(r)
        \/ GetVideoStatus(r)
    \/ RunVideoGenerationTask

SpecVideo == InitVideo /\ [][NextVideo]_vars

\* the generate-video request of slot r is answered with HTTP 200 in this step
VideoSucceeds(r) ==
    /\ calls[r].pc = "found"
    /\ calls[r].op = "generate"
    /\ calls'[r].pc = "idle"
    /\ Len(probe'.responses) = Len(probe.responses) + 1
    /\ probe'.responses[Len(probe'.responses)].http = 200

\* C23: a generate-video request that succeeds leaves the stored
\* video_status of its song at "processing", with the response status
\* "processing" and the background task scheduled, or at "completed", with
\* the response status "generated"; it never leaves it absent, "queued" or
\* "failed".
C23_VideoStatusLeft ==
    [][ \A r \in Reqs :
          VideoSucceeds(r)
          => LET song == probe'.songs[calls[r].song_id]
                 res == probe'.responses[Len(probe'.responses)]
             IN  /\ "video_status" \in DOMAIN song
                 /\ \/ /\ song.video_status = "processing"
                       /\ res.status = "processing"
                       /\ Len(probe'.tasks) = Len(probe.tasks) + 1
                       /\ probe'.tasks[Len(probe'.tasks)].song_id = calls[r].song_id
                    \/ /\ song.video_status = "completed"
                       /\ res.status = "generated"
                       /\ probe'.tasks = probe.tasks ]_vars

\* a song stored as "queued" was answered "processing", its task is scheduled
\* and the store says "processing"
C23_Witness ==
    /\ Len(probe.responses) = 1
    /\ probe.responses[1].op = "generate"
    /\ probe.responses[1].http = 200
    /\ probe.responses[1].status = "processing"
    /\ probe.songs["s1"].video_status = "processing"
    /\ Len(probe.tasks) = 1

----------------------------------------------------------------------------
(* create_album (server.py 2355-2539), from the request to the response.   *)
(* In this specification sel_input is the AlbumCreate body of the request  *)
(* being served, calls is the position of the handler (the album id, the   *)
(* loop index and the songs list), and probe holds db.albums, db.songs,    *)
(* the number of ids issued and the responses sent.                        *)

AlbumRequests == 1
MaxSongs == 3
MaxAlbumSongs == 2

\* AlbumSongInput (411-419): music_prompt is required, title may be empty
AlbumSongInputs ==
    { [title |-> "", music_prompt |-> "night drive"],
      [title |-> "Intro", music_prompt |-> " "],
      [title |-> "Intro", music_prompt |-> "night drive"] }

RECURSIVE ListsUpTo(_, _)
ListsUpTo(items, n) ==
    IF n = 0 THEN {<<>>}
    ELSE LET shorter == ListsUpTo(items, n - 1)
         IN  shorter \cup {Append(l, x) : l \in {s \in shorter : Len(s) = n - 1},
                                          x \in items}

\* AlbumCreate (421-432): num_songs is any integer
AlbumCreates ==
    [title : {"", "Test Album"}, music_prompt : {"", "night drive"},
     num_songs : (-1)..MaxSongs,
     album_songs : ListsUpTo(AlbumSongInputs, MaxAlbumSongs)]

NoAlbum == [title |-> "", music_prompt |-> "", num_songs |-> 0, album_songs |-> <<>>]

IdleCreate == [pc |-> "idle", album_id |-> 0, num_tracks |-> 0, i |-> 0, songs |-> <<>>]

\* a song of an earlier album of the user
EarlierSong == [id |-> 0, album_id |-> 0, track_number |-> 1, title |-> "Old"]

\* the checks of 2357-2370: TRUE when the request is refused with HTTP 422
AlbumRefused(album_data) ==
    LET has_track_inputs == Len(album_data.album_songs) > 0
    IN  \/ ~has_track_inputs /\ StripName(album_data.music_prompt) = ""
        \/ has_track_inputs
           /\ \E idx \in 1..Len(album_data.album_songs) :
                StripName(album_data.album_songs[idx].music_prompt) = ""

\* num_tracks (2373)
NumTracks(album_data) ==
    IF Len(album_data.album_songs) > 0
    THEN Len(album_data.album_songs) ELSE album_data.num_songs

\* the title of track i + 1 before a suggestion is asked for (2433, 2443)
TrackTitle(album_data, i) ==
    IF Len(album_data.album_songs) > 0
    THEN StripName(album_data.album_songs[i + 1].title) ELSE ""

AlbumResponse(http, album_data, album_id, songs) ==
    [http |-> http, album_data |-> album_data, id |-> album_id, songs |-> songs]

InitCreate ==
    /\ env = [gemini |-> FALSE, openai |-> FALSE, provider |-> "gemini",
              attempts_env |-> 3, store |-> "up"]
    /\ history = <<>>
    /\ counters = <<>>
    /\ RECENT_SUGGESTIONS = [p \in Procs |-> [f \in Fields |-> <<>>]]
    /\ req = [r \in Reqs |-> IdleReq]
    /\ budget = AlbumRequests
    /\ used_audio_urls = {}
    /\ sel_input = NoAlbum
    /\ calls = IdleCreate
    /\ probe = [albums |-> <<>>, songs |-> <<EarlierSong>>, issued |-> 0,
                responses |-> <<>>]

createFrame == <<env, history, counters, RECENT_SUGGESTIONS, req, used_audio_urls>>

\* create_album up to the loop (2356-2421): HTTP 422, HTTP 502 when the
\* album title suggestion raises, or the album document is inserted
CreateAlbumStart ==
    /\ budget > 0
    /\ calls.pc = "idle"
    /\ budget' = budget - 1
    /\ \E album_data \in AlbumCreates, title_suggestion \in {"ok", "raises"} :
         LET album_id == probe.issued + 1
         IN  /\ sel_input' = album_data
             /\ IF AlbumRefused(album_data)
                THEN /\ probe' = [probe EXCEPT !.responses =
                                    Append(@, AlbumResponse(422, album_data, 0, <<>>))]
                     /\ calls' = IdleCreate
                ELSE IF StripName(album_data.title) = "" /\ title_suggestion = "raises"
                THEN /\ probe' = [probe EXCEPT !.issued = album_id, !.responses =
                                    Append(@, AlbumResponse(502, album_data, 0, <<>>))]
                     /\ calls' = IdleCreate
                ELSE /\ probe' = [probe EXCEPT !.issued = album_id, !.albums =
                                    Append(@, [id |-> album_id,
                                               num_songs |-> NumTracks(album_data)])]
                     /\ calls' = [pc |-> "tracks", album_id |-> album_id,
                                  num_tracks |-> NumTracks(album_data),
                                  i |-> 0, songs |-> <<>>]
    /\ UNCHANGED createFrame

\* one pass of the loop over range(num_tracks) (2423-2528): HTTP 502 when the
\* title suggestion or generate_track_audio raises, otherwise the song is
\* inserted and appended to songs
CreateTrack ==
    /\ calls.pc = "tracks"
    /\ calls.i < calls.num_tracks
    /\ \E outcome \in {"stored", "title_raises", "audio_raises"} :
         LET song_doc == [id |-> probe.issued + 1, album_id |-> calls.album_id,
                          track_number |-> calls.i + 1,
                          title |-> IF TrackTitle(sel_input, calls.i) = ""
                                    THEN "Suggested"
                                    ELSE TrackTitle(sel_input, calls.i)]
         IN  /\ outcome = "title_raises" => TrackTitle(sel_input, calls.i) = ""
             /\ IF outcome = "stored"
                THEN /\ probe' = [probe EXCEPT !.issued = @ + 1,
                                               !.songs = Append(@, song_doc)]
                     /\ calls' = [calls EXCEPT !.i = @ + 1,
                                               !.songs = Append(@, song_doc)]
                ELSE /\ probe' = [probe EXCEPT !.responses =
                                    Append(@, AlbumResponse(502, sel_input, 0, <<>>))]
                     /\ calls' = IdleCreate
    /\ UNCHANGED <<sel_input, budget, createFrame>>

\* the loop is over: the response with the songs (2530-2539)
CreateAlbumReturn ==
    /\ calls.pc = "tracks"
    /\ ~(calls.i < calls.num_tracks)
    /\ probe' = [probe EXCEPT !.responses =
                   Append(@, AlbumResponse(200, sel_input, calls.album_id, calls.songs))]
    /\ calls' = IdleCreate
    /\ UNCHANGED <<sel_input, budget, createFrame>>

NextCreate == CreateAlbumStart \/ CreateTrack \/ CreateAlbumReturn

SpecCreate == InitCreate /\ [][NextCreate]_vars

\* the stored songs of an album, in insertion order
RECURSIVE SongsOf(_, _)
SongsOf(songs, album_id) ==
    IF songs = <<>> THEN <<>>
    ELSE IF Head(songs).album_id = album_id
         THEN <<Head(songs)>> \o SongsOf(Tail(songs), album_id)
         ELSE SongsOf(Tail(songs), album_id)

\* C24: a create_album answered with HTTP 200 has stored and returned exactly
\* len(album_songs) songs when per-track inputs were given and exactly
\* num_songs songs otherwise; each of them carries the id of the new album
\* and the track numbers are 1..N in creation order.
C24_AlbumSongCount ==
    \A k \in 1..Len(probe.responses) :
        LET res == probe.responses[k]
            expected == IF Len(res.album_data.album_songs) > 0
                        THEN Len(res.album_data.album_songs)
                        ELSE res.album_data.num_songs
        IN  res.http = 200
            => /\ Len(res.songs) = expected
               /\ SongsOf(probe.songs, res.id) = res.songs
               /\ \A n \in 1..Len(res.songs) :
                    /\ res.songs[n].album_id = res.id
                    /\ res.songs[n].track_number = n

----------------------------------------------------------------------------
(* get_genre_category (server.py 451-470) on genre lists in every order    *)

MaxGenres == 2

\* genres of one, of two and of no category, and one that differs from a
\* member by its case only
CategoryGenres == {"Techno", "Pop", "Chillwave", "Classical", "Folk", "techno"}

GenreListsUpTo == ListsUpTo(CategoryGenres, MaxGenres)

InitCategory ==
    /\ EngineIdle
    /\ calls = <<>>
    /\ probe = <<>>
    /\ used_audio_urls = {}
    /\ sel_input \in GenreListsUpTo

\* get_genre_category is called on the list, and on the list reversed
Categorize ==
    /\ Len(probe) < MaxCalls
    /\ LET genres == IF probe = <<>> THEN sel_input
                     ELSE [k \in 1..Len(sel_input) |-> sel_input[Len(sel_input) + 1 - k]]
       IN  probe' = Append(probe, [genres |-> genres, category |-> get_genre_category(genres)])
    /\ UNCHANGED <<calls, sel_input, used_audio_urls>>
    /\ UNCHANGED <<env, history, counters, RECENT_SUGGESTIONS, req, budget>>

NextCategory == Categorize

SpecCategory == InitCategory /\ [][NextCategory]_vars

\* the positions of the table that have one of the genres as a member
CategoriesOf(genres) ==
    {i \in 1..Len(genre_mapping) : Range(genres) \cap genre_mapping[i].genres # {}}

\* C32: get_genre_category returns the first category, in the order of the
\* table, that has any of the requested genres as a member, whatever the
\* order of the requested genres, and returns "default" exactly when no
\* requested genre is a member of any category.
C32_FirstCategoryInTableOrder ==
    /\ \A k \in 1..Len(probe) :
         LET hits == CategoriesOf(probe[k].genres)
         IN  /\ (probe[k].category = "default") <=> (hits = {})
             /\ hits # {} =>
                  probe[k].category =
                    genre_mapping[CHOOSE i \in hits : \A j \in hits : i <= j].category
    /\ \A k, l \in 1..Len(probe) :
         Range(probe[k].genres) = Range(probe[l].genres)
         => probe[k].category = probe[l].category

\* "Pop" in front of "Techno", and the other way round: both are "electronic"
C32_Witness ==
    /\ Len(probe) = 2
    /\ probe[1].genres = <<"Pop", "Techno">>
    /\ probe[2].genres = <<"Techno", "Pop">>
    /\ probe[1].category = "electronic"
    /\ probe[2].category = "electronic"

----------------------------------------------------------------------------
(* _fallback_suggestion (server.py 1305-1455): the candidates of a call,   *)
(* pick_unique, and the answer for vocal_languages. A text is the sequence *)
(* of its characters.                                                      *)

MaxCandidates == 2
MaxLanguages == 2

NeonDrive == <<"N", "e", "o", "n", " ", "D", "r", "i", "v", "e">>
EchoWave == <<"E", "c", "h", "o", " ", "W", "a", "v", "e">>
English == <<"E", "n", "g", "l", "i", "s", "h">>
French == <<"F", "r", "e", "n", "c", "h">>

\* texts the generators of 1346-1455 put into options; the same text may be
\* drawn more than once
FallbackOptions == {NeonDrive, EchoWave, Pop}

\* lang_pool (1404): the languages other than "Instrumental"
lang_pool == {English, Spanish, French}

\* lang_pool[:pick_count] after rng.shuffle (1407-1409)
LanguagePicks ==
    {l \in ListsUpTo(lang_pool, MaxLanguages) :
        /\ l # <<>>
        /\ \A a, b \in 1..Len(l) : a # b => l[a] # l[b]}

\* recent (1322-1324): the cache of the field and the avoid_texts, in lower
\* case
RecentSets ==
    SUBSET {lower(NeonDrive), lower(EchoWave), lower(English), lower(Spanish)}

\* cleaned of pick_unique (1327-1334): the stripped candidates that are not
\* empty, the first of each lower-case key
RECURSIVE Cleaned(_, _)
Cleaned(candidates, seen) ==
    IF candidates = <<>> THEN <<>>
    ELSE LET item == strip(Head(candidates))
             key == lower(item)
         IN  IF item = <<>> \/ key \in seen
             THEN Cleaned(Tail(candidates), seen)
             ELSE <<item>> \o Cleaned(Tail(candidates), seen \cup {key})

\* pick_unique (1326-1344); shuffled is cleaned after rng.shuffle
pick_unique(shuffled, recent) ==
    LET fresh == {i \in 1..Len(shuffled) : lower(shuffled[i]) \notin recent}
    IN  IF shuffled = <<>> THEN <<>>
        ELSE IF fresh # {} THEN shuffled[CHOOSE i \in fresh : \A j \in fresh : i <= j]
        ELSE shuffled[1]

\* the orders rng.shuffle can leave a list in
Shuffles(list) ==
    { [i \in 1..Len(list) |-> list[p[i]]] : p \in Permutations(1..Len(list)) }

\* the candidate pool of a call and the texts it can return
FallbackCall(field, instrumental_prompt, candidates, recent) ==
    IF field = "vocal_languages"
    THEN IF instrumental_prompt
         THEN [pool |-> {Instrumental}, returns |-> {Instrumental}]
         ELSE [pool |-> {JoinComma(l) : l \in LanguagePicks},
               returns |-> {JoinComma(l) : l \in LanguagePicks}]
    ELSE [pool |-> Range(Cleaned(candidates, {})),
          returns |-> {pick_unique(s, recent) : s \in Shuffles(Cleaned(candidates, {}))}]

InitFallback ==
    /\ EngineIdle
    /\ calls = <<>>
    /\ probe = <<>>
    /\ used_audio_urls = {}
    /\ sel_input \in [field : AllFields, instrumental_prompt : BOOLEAN,
                      recent : RecentSets]

\* one call of _fallback_suggestion(field, context, avoid_texts)
FallbackSuggestion ==
    /\ Len(probe) < MaxCalls
    /\ \E candidates \in ListsUpTo(FallbackOptions, MaxCandidates) \ {<<>>} :
         LET call == FallbackCall(sel_input.field, sel_input.instrumental_prompt,
                                  candidates, sel_input.recent)
         IN  \E text \in call.returns :
               probe' = Append(probe, [pool |-> call.pool, text |-> text])
    /\ UNCHANGED <<calls, sel_input, used_audio_urls>>
    /\ UNCHANGED <<env, history, counters, RECENT_SUGGESTIONS, req, budget>>

NextFallback == FallbackSuggestion

SpecFallback == InitFallback /\ [][NextFallback]_vars

\* C31: for every field, _fallback_suggestion returns a candidate whose
\* lower-case text is outside the recent set whenever its candidate pool
\* contains such a candidate; it returns a candidate that was seen only when
\* every candidate of the pool was seen.
C31_FallbackAvoidsRecent ==
    \A k \in 1..Len(probe) :
        (\E c \in probe[k].pool : lower(c) \notin sel_input.recent)
        => lower(probe[k].text) \notin sel_input.recent

----------------------------------------------------------------------------
(* _strip_machine_suffixes applied again to its own result, and the text   *)
(* that _finalize_unique_suggestion returns next to the one that           *)
(* _enforce_unique_suggestion accepted (server.py 1931-2001)               *)

MaxStrips == 2

\* suggestions accepted earlier in the scope of the request
SeenSets == SUBSET {<<"neon", "sky">>, <<"city", "lights">>}

InitStrip ==
    /\ EngineIdle
    /\ calls = <<>>
    /\ used_audio_urls = {}
    /\ sel_input \in UNION { [field : {f}, raw : GeneratorTexts(f), seen_in_scope : SeenSets] :
                             f \in Fields }
    /\ probe = [strips |-> <<>>, enforced |-> <<>>, unique |-> <<>>]

stripFrame == <<calls, sel_input, used_audio_urls, env, history, counters,
                RECENT_SUGGESTIONS, req, budget>>

\* _strip_machine_suffixes on the generated text, then on its own result
StripSuffixes ==
    /\ Len(probe.strips) < MaxStrips
    /\ LET text == IF probe.strips = <<>> THEN sel_input.raw
                   ELSE probe.strips[Len(probe.strips)]
       IN  probe' = [probe EXCEPT !.strips =
                        Append(@, _strip_machine_suffixes(sel_input.field, text))]
    /\ UNCHANGED stripFrame

\* _finalize_unique_suggestion on the suggestion that generate_ai_suggestion
\* stripped and validated (1715-1720, then 1986-1996)
FinalizeUnique ==
    /\ probe.enforced = <<>>
    /\ LET suggestion == ValidateForField(sel_input.field,
                             _strip_machine_suffixes(sel_input.field, sel_input.raw))
           enforced == _enforce_unique_suggestion(sel_input.field, suggestion, <<>>,
                                                  sel_input.seen_in_scope, <<>>)
       IN  /\ suggestion # <<>>
           /\ probe' = [probe EXCEPT
                          !.enforced = <<enforced>>,
                          !.unique = <<FinalizedText(sel_input.field, suggestion, <<>>,
                                                     sel_input.seen_in_scope, <<>>)>>]
    /\ UNCHANGED stripFrame

NextStrip == StripSuffixes \/ FinalizeUnique

SpecStrip == InitStrip /\ [][NextStrip]_vars

\* C33: _strip_machine_suffixes returns its own result unchanged, so the text
\* that _finalize_unique_suggestion returns and persists is the text that
\* _enforce_unique_suggestion validated and compared with the current value
\* and the seen set.
C33_StripIdempotent ==
    /\ Len(probe.strips) = 2 => probe.strips[2] = probe.strips[1]
    /\ probe.enforced # <<>> => probe.unique = probe.enforced

----------------------------------------------------------------------------
(* Requests of two scopes for one field (server.py 755-757, 1964-1973)     *)

\* the normalized suggestions accepted so far under a scope key: those in
\* the history, and those of requests that have not persisted theirs yet
AcceptedUnder(field, scope_key) ==
    NormalizedOf(Range(Matching(history, field, scope_key)))
    \cup { _normalize_suggestion_text(req[o].unique) :
             o \in {x \in Reqs : /\ req[x].field = field
                                  /\ req[x].scope_key = scope_key
                                  /\ req[x].unique # <<>>} }

----------------------------------------------------------------------------
(* Signups with one mobile number, and failed create_album requests        *)

\* the signup requests for a mobile number that were answered with HTTP 200
SignupsCreated(mobile) ==
    {i \in 1..Len(probe.responses) :
        /\ probe.responses[i].op = "signup"
        /\ probe.responses[i].mobile = mobile
        /\ probe.responses[i].status = 200}

\* C39: for any interleaving of concurrent signup requests that carry the same
\* mobile number, at most one of them creates a user (HTTP 200) and the others
\* fail with HTTP 400.
C39_OneSignupWins ==
    \A mobile \in Mobiles : Cardinality(SignupsCreated(mobile)) <= 1

\* the ids of the albums whose create_album was answered with HTTP 200
AlbumsReturned ==
    {probe.responses[k].id :
        k \in {n \in 1..Len(probe.responses) : probe.responses[n].http = 200}}

\* C35: create_album is all-or-nothing: when no request is being served, every
\* album record and every song record of an album in the store belongs to a
\* request that was answered with HTTP 200; a request that failed after
\* validation (HTTP 502 on a track title or on a track's audio) has left none.
C35_AllOrNothing ==
    calls.pc = "idle"
    => /\ \A a \in 1..Len(probe.albums) : probe.albums[a].id \in AlbumsReturned
       /\ \A s \in 1..Len(probe.songs) :
            probe.songs[s] # EarlierSong
            => probe.songs[s].album_id \in AlbumsReturned

----------------------------------------------------------------------------
(* The video fields of db.songs under every operation that writes them:    *)
(* create_song (2303-2347), create_album (2482-2526), generate_song_video, *)
(* generate_album_videos (3161-3208) and _run_video_generation_task        *)
(* (3025-3087). In this specification sel_input is the deployment, probe   *)
(* holds db.songs and db.albums in insertion order (the id of a document   *)
(* is its position) and the background tasks scheduled. A handler is one   *)
(* step: every write is a single update_one or insert_one on one document. *)

\* requests served in one behaviour, and songs the store may hold
LibraryRequests == 3
MaxLibrarySongs == 2

\* album_id of a song that belongs to no album (None)
NoAlbumId == 0

\* fallback_video_ready (2303-2309)
fallback_video_ready(settings, generate_video) ==
    generate_video
      /\ (settings.FREE_TIER_MODE
            \/ (~settings.REPLICATE_API_TOKEN /\ ~settings.STRICT_REAL_MEDIA_OUTPUT))

\* the song document of create_song (2311-2334) and of a track of
\* create_album (2497-2520): None is "null"
song_doc(settings, id, user_id, album_id, generate_video) ==
    LET ready == fallback_video_ready(settings, generate_video)
    IN  [id |-> id, user_id |-> user_id, album_id |-> album_id,
         generate_video |-> IF generate_video THEN "true" ELSE "false",
         video_url |-> IF ready THEN "sample" ELSE "null",
         video_status |-> IF ready THEN "completed"
                          ELSE IF generate_video THEN "queued" ELSE "null"]

\* a generate_album_videos that marks a song completed and leaves its
\* video_url as it was
generate_album_videos_statusOnly(settings) ==
    IF settings.REPLICATE_API_TOKEN /\ ~settings.FREE_TIER_MODE
    THEN [video_status |-> "processing"]
    ELSE [generate_video |-> "true", video_status |-> "completed"]

\* the fields generate_album_videos writes to each song of the album
\* (3174-3194)
generate_album_videos(settings) ==
    IF settings.REPLICATE_API_TOKEN /\ ~settings.FREE_TIER_MODE
    THEN [video_status |-> "processing"]
    ELSE [video_url |-> "sample", generate_video |-> "true",
          video_status |-> "completed"]

\* the store as the task meets it: every operation answers, the first
\* operation of the try block raises and the ones of the except block answer,
\* or every operation raises
TaskStores == {"up", "flaky", "down"}

\* the fields _run_video_generation_task writes: nothing when its find_one
\* finds no song of the user (3028-3029) or when the writes of the except
\* block raise too (3070, 3086)
_run_video_generation_task(settings, found, outcome, store) ==
    IF store = "down" THEN NoUpdate
    ELSE IF store = "flaky"
         THEN IF settings.STRICT_REAL_MEDIA_OUTPUT \/ found # <<>>
              THEN TaskUpdate(settings, "raises") ELSE NoUpdate
    ELSE IF found = <<>> THEN NoUpdate
    ELSE TaskUpdate(settings, outcome)

InitVideos ==
    /\ env = [gemini |-> FALSE, openai |-> FALSE, provider |-> "gemini",
              attempts_env |-> 3, store |-> "up"]
    /\ history = <<>>
    /\ counters = <<>>
    /\ RECENT_SUGGESTIONS = [p \in Procs |-> [f \in Fields |-> <<>>]]
    /\ req = [r \in Reqs |-> IdleReq]
    /\ budget = LibraryRequests
    /\ used_audio_urls = {}
    /\ sel_input \in VideoSettings
    /\ calls = <<>>
    /\ probe = [songs |-> <<>>, albums |-> <<>>, tasks |-> <<>>]

videosFrame == <<calls, authFrame>>

\* POST /songs/create answered with HTTP 200: album_id is the one of the body
CreateSong ==
    /\ budget > 0
    /\ Len(probe.songs) < MaxLibrarySongs
    /\ budget' = budget - 1
    /\ \E user_id \in SongUsers, generate_video \in BOOLEAN,
          album_id \in {NoAlbumId} \cup (1..Len(probe.albums)) :
         probe' = [probe EXCEPT !.songs =
                     Append(@, song_doc(sel_input, Len(probe.songs) + 1, user_id,
                                        album_id, generate_video))]
    /\ UNCHANGED videosFrame

RECURSIVE AlbumTracks(_, _, _, _, _)
AlbumTracks(settings, songs, album, generate_video, n) ==
    IF n = 0 THEN songs
    ELSE AlbumTracks(settings,
                     Append(songs, song_doc(settings, Len(songs) + 1, album.user_id,
                                            album.id, generate_video)),
                     album, generate_video, n - 1)

\* POST /albums/create past its validation: the album document and the songs
\* of the tracks created before the request returned or failed
CreateAlbum ==
    /\ budget > 0
    /\ budget' = budget - 1
    /\ \E user_id \in SongUsers, generate_video \in BOOLEAN,
          stored \in 0..(MaxLibrarySongs - Len(probe.songs)) :
         LET album == [id |-> Len(probe.albums) + 1, user_id |-> user_id]
         IN  /\ stored <= MaxAlbumSongs
             /\ probe' = [probe EXCEPT
                    !.albums = Append(@, album),
                    !.songs = AlbumTracks(sel_input, @, album, generate_video, stored)]
    /\ UNCHANGED videosFrame

\* POST /songs/{song_id}/generate-video (3092-3145)
GenerateVideo ==
    /\ budget > 0
    /\ budget' = budget - 1
    /\ \E song_id \in 1..MaxLibrarySongs, user_id \in SongUsers :
         LET result == generate_song_video(sel_input,
                                           FindSong(probe.songs, song_id, user_id))
         IN  probe' = [probe EXCEPT
                 !.songs = UpdateSong(@, song_id, result.update),
                 !.tasks = IF result.scheduled
                           THEN Append(@, [song_id |-> song_id, user_id |-> user_id])
                           ELSE @]
    /\ UNCHANGED videosFrame

\* the songs found by db.songs.find({"album_id": album_id}) (3169)
AlbumSongIds(songs, album_id) ==
    {i \in 1..Len(songs) : songs[i].album_id = album_id}

\* background_tasks.add_task for the songs of ids, in the order found
RECURSIVE AddTasks(_, _, _, _)
AddTasks(tasks, ids, user_id, i) ==
    IF i > MaxLibrarySongs THEN tasks
    ELSE AddTasks(IF i \in ids
                  THEN Append(tasks, [song_id |-> i, user_id |-> user_id])
                  ELSE tasks,
                  ids, user_id, i + 1)

\* POST /albums/{album_id}/generate-videos (3161-3208): HTTP 404 unless the
\* album is one of user_id
GenerateAlbumVideos ==
    /\ budget > 0
    /\ budget' = budget - 1
    /\ \E album_id \in 1..LibraryRequests, user_id \in SongUsers :
         LET owned == /\ album_id <= Len(probe.albums)
                      /\ probe.albums[album_id].user_id = user_id
             ids == AlbumSongIds(probe.songs, album_id)
         IN  IF ~owned THEN probe' = probe
             ELSE probe' = [probe EXCEPT
                    !.songs = [i \in 1..Len(probe.songs) |->
                                 IF i \in ids
                                 THEN SetFields(probe.songs[i],
                                                generate_album_videos(sel_input))
                                 ELSE probe.songs[i]],
                    !.tasks = IF sel_input.REPLICATE_API_TOKEN
                                   /\ ~sel_input.FREE_TIER_MODE
                              THEN AddTasks(@, ids, user_id, 1) ELSE @]
    /\ UNCHANGED videosFrame

\* _run_video_generation_task (3025-3087) for the task scheduled first
RunVideoTask ==
    /\ probe.tasks # <<>>
    /\ LET task == Head(probe.tasks)
           found == FindSong(probe.songs, task.song_id, task.user_id)
       IN  \E outcome \in ReplicateOutcomes, store \in TaskStores :
             probe' = [probe EXCEPT
                 !.tasks = Tail(@),
                 !.songs = UpdateSong(@, task.song_id,
                              _run_video_generation_task(sel_input, found,
                                                         outcome, store))]
    /\ UNCHANGED <<budget, videosFrame>>

NextVideos ==
    \/ CreateSong
    \/ CreateAlbum
    \/ GenerateVideo
    \/ GenerateAlbumVideos
    \/ RunVideoTask

SpecVideos == InitVideos /\ [][NextVideos]_vars

\* the background tasks that were scheduled do run
FairVideos == SpecVideos /\ WF_vars(RunVideoTask)

\* C37: in every reachable state, a song whose video_status is "completed"
\* has a non-empty video_url, whichever operation set that status.
C37_CompletedHasUrl ==
    \A i \in 1..Len(probe.songs) :
        probe.songs[i].video_status = "completed"
        => /\ "video_url" \in DOMAIN probe.songs[i]
           /\ probe.songs[i].video_url \in {"sample", "replicate"}

\* one song was completed by the background task with the url of the
\* provider, another with the sample url
C37_Witness ==
    /\ \E i \in 1..Len(probe.songs) :
         /\ probe.songs[i].video_status = "completed"
         /\ probe.songs[i].video_url = "replicate"
    /\ \E i \in 1..Len(probe.songs) :
         /\ probe.songs[i].video_status = "completed"
         /\ probe.songs[i].video_url = "sample"

\* the video_status of the song with the id, "" when no such song is stored
StoredStatus(i) ==
    IF i \in DOMAIN probe.songs THEN probe.songs[i].video_status ELSE ""

\* C36: every song whose video_status was set to "processing" by
\* generate_song_video or generate_album_videos eventually has video_status
\* "completed" or "failed", when the scheduled background tasks run.
C36_ProcessingEnds ==
    \A i \in 1..MaxLibrarySongs :
        (StoredStatus(i) = "processing") ~> (StoredStatus(i) \in {"completed", "failed"})

----------------------------------------------------------------------------
(* Unique media urls and the used set of a user (server.py 628-656,        *)
(* 2604-2620, 810-826, 901-905). A url is held as the parts urlparse       *)
(* splits it into; the query is the list of its key=value pairs. In this   *)
(* specification sel_input is the client's requests, probe holds db.songs  *)
(* in creation order, the catalog url each song was given and the used     *)
(* set loaded by the last request.                                         *)

\* limit of _load_recent_user_audio_urls
RecentLimit == 40

\* songs created in one behaviour
MaxStored == 42

Url(netloc, path, query, fragment) ==
    [scheme |-> "https", netloc |-> netloc, path |-> path, query |-> query,
     fragment |-> fragment]

\* the url of a catalog asset: https://www.soundhelix.com/examples/mp3/
\* SoundHelix-<name>.mp3, with no query and no fragment
CatalogUrl(name) == Url("www.soundhelix.com", name, <<>>, "")

_DEMO_MEDIA_HOSTS ==
    {"www.soundhelix.com", "soundhelix.com", "samplelib.com", "download.samplelib.com"}

\* str.lower() of a host name
LowerHost(netloc) ==
    CASE netloc = "WWW.SoundHelix.com" -> "www.soundhelix.com"
      [] netloc = "SampleLib.com" -> "samplelib.com"
      [] OTHER -> netloc

\* query[key] = value on dict(parse_qsl(query)): the value of a key that is
\* there is replaced in place, a new key goes last
_append_query_param(url, key, value) ==
    LET query == url.query
        at == {i \in 1..Len(query) : query[i].key = key}
    IN  [url EXCEPT !.query =
            IF at = {} THEN Append(query, [key |-> key, value |-> value])
            ELSE [i \in 1..Len(query) |->
                    IF i \in at THEN [key |-> key, value |-> value] ELSE query[i]]]

\* token stands for the timestamp and uuid4 digits of the call
_make_unique_media_url(url, force, token) ==
    IF force \/ LowerHost(url.netloc) \in _DEMO_MEDIA_HOSTS
    THEN _append_query_param(url, "mwv", token)
    ELSE url

\* a strip that drops the fragment and keeps the query
_strip_url_query_keepQuery(url) == [url EXCEPT !.fragment = ""]

\* parsed._replace(query="", fragment=""); the empty url is left empty
_strip_url_query(url) == [url EXCEPT !.query = <<>>, !.fragment = ""]

\* the last limit documents of docs: sort("created_at", -1).to_list(limit)
MostRecent(docs, limit) ==
    SubSeq(docs, IF Len(docs) > limit THEN Len(docs) - limit + 1 ELSE 1, Len(docs))

\* store is "down" when the find raises: the set is empty (2619-2620)
_load_recent_user_audio_urls(songs, user_id, store) ==
    IF store = "down" THEN {}
    ELSE LET docs == MostRecent(SelectSeq(songs, LAMBDA d : d.user_id = user_id),
                                RecentLimit)
         IN  {_strip_url_query(docs[i].audio_url) : i \in 1..Len(docs)}

\* the catalog names whose url is in the used set
UsedNames(used) == {name \in AllUrls : CatalogUrl(name) \in used}

\* the bodies of POST /songs/create: with them the best asset of a category
\* whose assets are all used does not depend on the tie-breaker
FirstPayloads ==
    { [genres |-> <<"Jazz">>, music_prompt |-> <<>>, duration_seconds |-> None],
      [genres |-> <<"Techno">>, music_prompt |-> <<"dark", "energy", "drive">>,
       duration_seconds |-> None] }

LaterPayloads ==
    { [genres |-> <<"Techno">>, music_prompt |-> <<"summer", "dreams">>,
       duration_seconds |-> <<25>>],
      [genres |-> <<"Techno">>, music_prompt |-> <<"dark", "energy", "drive">>,
       duration_seconds |-> None] }

\* a song of another user, made from the first asset of the catalog
OtherSong ==
    [user_id |-> "u2",
     audio_url |-> _make_unique_media_url(CatalogUrl("Song-1"), FALSE, 0)]

InitUrls ==
    /\ env \in {[gemini |-> FALSE, openai |-> FALSE, provider |-> "gemini",
                 attempts_env |-> 3, store |-> s] : s \in {"up", "down"}}
    /\ history = <<>>
    /\ counters = <<>>
    /\ RECENT_SUGGESTIONS = [p \in Procs |-> [f \in Fields |-> <<>>]]
    /\ req = [r \in Reqs |-> IdleReq]
    /\ budget = MaxStored
    /\ used_audio_urls = {}
    /\ sel_input \in [first : FirstPayloads, later : LaterPayloads]
    /\ calls = <<>>
    /\ probe = [songs |-> <<OtherSong>>, given |-> <<>>, used |-> {}]

\* POST /songs/create by user u1 with audio from the curated catalog: the
\* used set is loaded (2254), an asset is selected (822, 901) and the song is
\* stored with the unique url of the asset (825, 904, 2347)
CreateCuratedSong ==
    /\ budget > 0
    /\ budget' = budget - 1
    /\ LET song_payload == IF probe.given = <<>> THEN sel_input.first
                           ELSE sel_input.later
       IN  \E used \in {_load_recent_user_audio_urls(probe.songs, "u1", env.store)} :
           \E used_names \in {UsedNames(used)} :
           \E tie \in TieChoices(get_genre_category(song_payload.genres)) :
           \E selected \in {select_audio_for_genres(song_payload.genres, used_names,
                                                     song_payload, tie)} :
             LET unique_url == _make_unique_media_url(CatalogUrl(selected.url), FALSE,
                                                      Len(probe.songs) + 1)
             IN  probe' = [songs |-> Append(probe.songs,
                                            [user_id |-> "u1", audio_url |-> unique_url]),
                           given |-> Append(probe.given, selected.url),
                           used |-> used]
    /\ UNCHANGED <<calls, authFrame>>

NextUrls == CreateCuratedSong

SpecUrls == InitUrls /\ [][NextUrls]_vars

\* the songs of user u1 that were stored when the last request loaded its
\* used set, in creation order: each with the catalog url it was given
StoredBefore ==
    LET n == Len(probe.songs) - 1
        first == Len(probe.songs) - Len(probe.given)
    IN  [i \in 1..(n - first) |-> probe.given[i]]

\* for every catalog url u, _strip_url_query(_make_unique_media_url(u)) is u
StripUndoesUnique ==
    /\ \A name \in AllUrls, token \in 0..MaxStored :
         _strip_url_query(_make_unique_media_url(CatalogUrl(name), FALSE, token))
           = CatalogUrl(name)
    /\ \A i \in 1..Len(probe.given) :
         LET doc == probe.songs[Len(probe.songs) - Len(probe.given) + i]
         IN  /\ doc.audio_url # CatalogUrl(probe.given[i])
             /\ _strip_url_query(doc.audio_url) = CatalogUrl(probe.given[i])

=============================================================================
